---- MODULE Spec2Model ----
(***************************************************************************)
(* Skill Guardrails: the escalation pipeline of SkillScanner.scan_skill    *)
(* (loader, L1 pattern engine, L2 semantic oracle adapter, L3 isolation    *)
(* executor, L4 trust ledger, risk aggregation).                           *)
(*                                                                         *)
(* Conventions.  A Python str is a sequence of one-character strings, so   *)
(* that splitting, stripping, searching and iterating a str are computed   *)
(* as the code computes them.  A severity or score in [0.0, 1.0] is an     *)
(* integer number of hundredths (0.35 is 35); a weighted risk score is an  *)
(* integer number of ten-thousandths (weight * score), so that 1.0 is      *)
(* 10000.  The arithmetic is exact where Python's is binary floating       *)
(* point.                                                                  *)
(***************************************************************************)
EXTENDS Integers, Sequences, FiniteSets, TLC

VARIABLES
    patterns_config,    \* SkillScanner.patterns_config (patterns.yaml)
    thresholds_config,  \* SkillScanner.thresholds_config (thresholds.yaml)
    env,                \* what the analyzers' _load_config read at construction
    pc,                 \* position of scan_skill
    level,              \* the level argument of scan_skill
    skill,              \* the Skill built by Skill.from_path
    findings,           \* the running findings list of scan_skill
    invoked,            \* the analyzers called so far in this scan
    l2_attempts,        \* oracle requests made by _analyze_async
    l3_blocks,          \* code_blocks selected by _extract_testable_code
    l3_index,           \* index of the next block handed to _run_in_sandbox
    l3_findings,        \* the findings list local to DynamicAnalyzer.analyze
    executed,           \* blocks handed to the sandbox provider so far
    temp_files,         \* temporary artifacts that exist on disk
    audit_log,          \* lines of the audit log file
    raised,             \* the exception propagating out of scan_skill
    result,             \* <<the SkillResult scan_skill returned>>, <<>> before
    log_file,           \* the audit log file as the pieces written to it
    writer,             \* position and file buffer of each _log_audit call
    strict,             \* the --strict option of the scan command
    exit_code,          \* <<exit status of the scan command>>, <<>> while it runs
    results,            \* the results list of the scan command
    report,             \* <<the ScanReport of the scan command>>, <<>> before
    applied,            \* a method applied on its own: its name and arguments
    returned            \* what that call returned

vars == <<patterns_config, thresholds_config, env, pc, level, skill, findings,
          invoked, l2_attempts, l3_blocks, l3_index, l3_findings, executed,
          temp_files, audit_log, raised, result, log_file, writer, strict,
          exit_code, results, report, applied, returned>>

(***************************************************************************)
(* String constants of the program.                                        *)
(***************************************************************************)
S_name ==
    <<"n", "a", "m", "e">>
S_description ==
    <<"d", "e", "s", "c", "r", "i", "p", "t", "i", "o", "n">>
S_risk ==
    <<"r", "i", "s", "k">>
S_source ==
    <<"s", "o", "u", "r", "c", "e">>
S_permissions ==
    <<"p", "e", "r", "m", "i", "s", "s", "i", "o", "n", "s">>
S_author ==
    <<"a", "u", "t", "h", "o", "r">>
S_trust_level ==
    <<"t", "r", "u", "s", "t", "_", "l", "e", "v", "e", "l">>
S_none ==
    <<"n", "o", "n", "e">>
S_safe ==
    <<"s", "a", "f", "e">>
S_critical ==
    <<"c", "r", "i", "t", "i", "c", "a", "l">>
S_offensive ==
    <<"o", "f", "f", "e", "n", "s", "i", "v", "e">>
S_unknown ==
    <<"u", "n", "k", "n", "o", "w", "n">>
S_self ==
    <<"s", "e", "l", "f">>
S_http ==
    <<"h", "t", "t", "p">>
S_community ==
    <<"c", "o", "m", "m", "u", "n", "i", "t", "y">>
S_official ==
    <<"o", "f", "f", "i", "c", "i", "a", "l">>
S_verified ==
    <<"v", "e", "r", "i", "f", "i", "e", "d">>
S_python ==
    <<"p", "y", "t", "h", "o", "n">>
S_py ==
    <<"p", "y">>
S_bash ==
    <<"b", "a", "s", "h">>
S_sh ==
    <<"s", "h">>
S_shell ==
    <<"s", "h", "e", "l", "l">>
S_zsh ==
    <<"z", "s", "h">>
S_error ==
    <<"e", "r", "r", "o", "r">>
Dashes ==
    <<"-", "-", "-">>
NLDashes ==
    <<"\n", "-", "-", "-">>
\* the code fence ```; "~" stands for a backquote, which a TLA+ string cannot hold
Fence ==
    <<"~", "~", "~">>
DISCLAIMER ==
    <<"A", "U", "T", "H", "O", "R", "I", "Z", "E", "D", " ", "U", "S", "E", " ", "O", "N", "L",
      "Y">>
S_rm ==
    <<"r", "m">>
S_rf ==
    <<"-", "r", "f">>
S_dunder_import ==
    <<"_", "_", "i", "m", "p", "o", "r", "t", "_", "_">>
LowerAlpha ==
    <<"a", "b", "c", "d", "e", "f", "g", "h", "i", "j", "k", "l", "m", "n", "o", "p", "q", "r",
      "s", "t", "u", "v", "w", "x", "y", "z">>
UpperAlpha ==
    <<"A", "B", "C", "D", "E", "F", "G", "H", "I", "J", "K", "L", "M", "N", "O", "P", "Q", "R",
      "S", "T", "U", "V", "W", "X", "Y", "Z">>
Digits ==
    <<"0", "1", "2", "3", "4", "5", "6", "7", "8", "9">>
D_anthropics ==
    <<"g", "i", "t", "h", "u", "b", ".", "c", "o", "m", "/", "a", "n", "t", "h", "r", "o", "p",
      "i", "c", "s">>
D_google ==
    <<"g", "i", "t", "h", "u", "b", ".", "c", "o", "m", "/", "g", "o", "o", "g", "l", "e">>
D_microsoft ==
    <<"g", "i", "t", "h", "u", "b", ".", "c", "o", "m", "/", "m", "i", "c", "r", "o", "s", "o",
      "f", "t">>
D_openai ==
    <<"g", "i", "t", "h", "u", "b", ".", "c", "o", "m", "/", "o", "p", "e", "n", "a", "i">>
P_permission_denied ==
    <<"p", "e", "r", "m", "i", "s", "s", "i", "o", "n", " ", "d", "e", "n", "i", "e", "d">>
P_network_unreachable ==
    <<"n", "e", "t", "w", "o", "r", "k", " ", "u", "n", "r", "e", "a", "c", "h", "a", "b", "l",
      "e">>
P_connection_refused ==
    <<"c", "o", "n", "n", "e", "c", "t", "i", "o", "n", " ", "r", "e", "f", "u", "s", "e", "d">>
P_curl ==
    <<"c", "u", "r", "l", ":">>
P_wget ==
    <<"w", "g", "e", "t", ":">>
P_socket_error ==
    <<"s", "o", "c", "k", "e", "t", ".", "e", "r", "r", "o", "r">>
P_subprocess ==
    <<"s", "u", "b", "p", "r", "o", "c", "e", "s", "s">>
Alphabet ==
    <<"a", "b", "c", "d", "e", "f", "g", "h", "i", "j", "k", "l", "m", "n", "o", "p", "q", "r",
      "s", "t", "u", "v", "w", "x", "y", "z", "A", "B", "C", "D", "E", "F", "G", "H", "I", "J",
      "K", "L", "M", "N", "O", "P", "Q", "R", "S", "T", "U", "V", "W", "X", "Y", "Z", "0", "1",
      "2", "3", "4", "5", "6", "7", "8", "9", " ", "\n", ":", "-", "_", "~", "/", ".", ",",
      "(", ")", "=", "'", "\"", "#", "\n">>
S_net ==
    <<"n", "e", "t">>
S_fs ==
    <<"f", "s">>
FolderName ==
    <<"s", "k">>
A_al ==
    <<"a", "l">>
A_bo ==
    <<"b", "o">>
A_cy ==
    <<"c", "y">>
R_eval ==
    <<"e", "v", "a", "l", "(">>
R_ignore ==
    <<"i", "g", "n", "o", "r", "e", " ", "p", "r", "e", "v", "i", "o", "u", "s">>
R_base64 ==
    <<"b", "a", "s", "e", "6", "4">>
R_todo ==
    <<"t", "o", "d", "o">>
R_fetch ==
    <<"c", "u", "r", "l", " ">>
K_clean ==
    <<"-", "-", "-", "\n", "n", "a", "m", "e", ":", " ", "s", "k", "\n", "d", "e", "s", "c",
      "r", "i", "p", "t", "i", "o", "n", ":", " ", "d", "\n", "r", "i", "s", "k", ":", " ",
      "s", "a", "f", "e", "\n", "s", "o", "u", "r", "c", "e", ":", " ", "s", "e", "l", "f",
      "\n", "-", "-", "-", "\n", "h", "e", "l", "l", "o", "\n">>
K_nosource ==
    <<"-", "-", "-", "\n", "n", "a", "m", "e", ":", " ", "s", "k", "\n", "d", "e", "s", "c",
      "r", "i", "p", "t", "i", "o", "n", ":", " ", "d", "\n", "r", "i", "s", "k", ":", " ",
      "s", "a", "f", "e", "\n", "-", "-", "-", "\n", "h", "e", "l", "l", "o", "\n">>
K_offensive ==
    <<"-", "-", "-", "\n", "n", "a", "m", "e", ":", " ", "s", "k", "\n", "d", "e", "s", "c",
      "r", "i", "p", "t", "i", "o", "n", ":", " ", "d", "\n", "r", "i", "s", "k", ":", " ",
      "o", "f", "f", "e", "n", "s", "i", "v", "e", "\n", "s", "o", "u", "r", "c", "e", ":",
      " ", "s", "e", "l", "f", "\n", "p", "e", "r", "m", "i", "s", "s", "i", "o", "n", "s",
      ":", " ", "n", "e", "t", ",", " ", "f", "s", "\n", "-", "-", "-", "\n", "s", "c", "a",
      "n", " ", "h", "o", "s", "t", "s", "\n">>
K_authorized ==
    <<"-", "-", "-", "\n", "n", "a", "m", "e", ":", " ", "s", "k", "\n", "d", "e", "s", "c",
      "r", "i", "p", "t", "i", "o", "n", ":", " ", "d", "\n", "r", "i", "s", "k", ":", " ",
      "o", "f", "f", "e", "n", "s", "i", "v", "e", "\n", "s", "o", "u", "r", "c", "e", ":",
      " ", "h", "t", "t", "p", "s", ":", "/", "/", "g", "i", "t", "h", "u", "b", ".", "c", "o",
      "m", "/", "g", "o", "o", "g", "l", "e", "/", "x", "\n", "a", "u", "t", "h", "o", "r",
      ":", " ", "a", "l", "\n", "-", "-", "-", "\n", "A", "u", "t", "h", "o", "r", "i", "z",
      "e", "d", " ", "u", "s", "e", " ", "o", "n", "l", "y", "\n", "~", "~", "~", "p", "y",
      "t", "h", "o", "n", "\n", "x", " ", "=", " ", "e", "v", "a", "l", "(", "i", "n", "p",
      "u", "t", "(", ")", ")", "\n", "~", "~", "~", "\n">>
K_shell ==
    <<"-", "-", "-", "\n", "d", "e", "s", "c", "r", "i", "p", "t", "i", "o", "n", ":", " ",
      "d", "\n", "r", "i", "s", "k", ":", " ", "b", "a", "d", "\n", "s", "o", "u", "r", "c",
      "e", ":", " ", "s", "e", "l", "f", "\n", "a", "u", "t", "h", "o", "r", ":", " ", "b",
      "o", "\n", "-", "-", "-", "\n", "~", "~", "~", "s", "h", "\n", "r", "m", " ", "-", "r",
      "f", " ", "/", "t", "m", "p", "/", "x", "\n", "~", "~", "~", "\n", "~", "~", "~", "p",
      "y", "t", "h", "o", "n", "\n", "m", " ", "=", " ", "_", "_", "i", "m", "p", "o", "r",
      "t", "_", "_", "(", "'", "b", "a", "s", "e", "6", "4", "'", ")", "\n", "~", "~", "~", "\n">>
K_eval ==
    <<"-", "-", "-", "\n", "n", "a", "m", "e", ":", " ", "\"", "s", "k", "\"", "\n", "d", "e",
      "s", "c", "r", "i", "p", "t", "i", "o", "n", ":", " ", "d", "\n", "r", "i", "s", "k",
      ":", " ", "n", "o", "n", "e", "\n", "s", "o", "u", "r", "c", "e", ":", " ", "s", "e",
      "l", "f", "\n", "t", "r", "u", "s", "t", "_", "l", "e", "v", "e", "l", ":", " ", "o",
      "f", "f", "i", "c", "i", "a", "l", "\n", "-", "-", "-", "\n", "u", "s", "e", " ", "e",
      "v", "a", "l", "(", "x", ")", "\n", "T", "O", "D", "O", " ", "E", "V", "A", "L", "(",
      "y", ")", "\n">>
K_norisk ==
    <<"-", "-", "-", "\n", "n", "a", "m", "e", ":", " ", "o", "t", "h", "e", "r", "\n", "d",
      "e", "s", "c", "r", "i", "p", "t", "i", "o", "n", ":", " ", "d", "\n", "s", "o", "u",
      "r", "c", "e", ":", " ", "h", "t", "t", "p", ":", "/", "/", "e", "v", "i", "l", ".", "e",
      "x", "a", "m", "p", "l", "e", "/", "x", "\n", "a", "u", "t", "h", "o", "r", ":", " ",
      "c", "y", "\n", "t", "r", "u", "s", "t", "_", "l", "e", "v", "e", "l", ":", " ", "v",
      "e", "r", "i", "f", "i", "e", "d", "\n", "-", "-", "-", "\n", "t", "e", "x", "t", "\n">>
K_nodesc ==
    <<"-", "-", "-", "\n", "n", "a", "m", "e", ":", " ", "s", "k", "\n", "r", "i", "s", "k",
      ":", " ", "s", "a", "f", "e", "\n", "s", "o", "u", "r", "c", "e", ":", " ", "s", "e",
      "l", "f", "\n", "-", "-", "-", "\n", "h", "e", "l", "l", "o", "\n">>
K_critical ==
    <<"-", "-", "-", "\n", "n", "a", "m", "e", ":", " ", "s", "k", "\n", "d", "e", "s", "c",
      "r", "i", "p", "t", "i", "o", "n", ":", " ", "d", "\n", "r", "i", "s", "k", ":", " ",
      "c", "r", "i", "t", "i", "c", "a", "l", "\n", "s", "o", "u", "r", "c", "e", ":", " ",
      "s", "e", "l", "f", "\n", "-", "-", "-", "\n", "h", "e", "l", "l", "o", "\n">>
K_many ==
    <<"-", "-", "-", "\n", "n", "a", "m", "e", ":", " ", "s", "k", "\n", "d", "e", "s", "c",
      "r", "i", "p", "t", "i", "o", "n", ":", " ", "d", "\n", "r", "i", "s", "k", ":", " ",
      "s", "a", "f", "e", "\n", "s", "o", "u", "r", "c", "e", ":", " ", "s", "e", "l", "f",
      "\n", "-", "-", "-", "\n", "~", "~", "~", "r", "u", "b", "y", "\n", "p", "u", "t", "s",
      " ", "'", "h", "e", "l", "l", "o", " ", "w", "o", "r", "l", "d", "'", "\n", "~", "~",
      "~", "\n", "~", "~", "~", "p", "y", "t", "h", "o", "n", "\n", "#", " ", "j", "u", "s",
      "t", " ", "a", " ", "c", "o", "m", "m", "e", "n", "t", "\n", "~", "~", "~", "\n", "~",
      "~", "~", "s", "h", "\n", "e", "c", "h", "o", " ", "h", "i", "\n", "~", "~", "~", "\n",
      "~", "~", "~", "P", "y", "t", "h", "o", "n", "\n", "p", "r", "i", "n", "t", "(", "'",
      "b", "l", "o", "c", "k", " ", "1", "'", ")", "\n", "~", "~", "~", "\n", "~", "~", "~",
      "p", "y", "\n", "p", "r", "i", "n", "t", "(", "'", "b", "l", "o", "c", "k", " ", "2",
      "'", ")", "\n", "~", "~", "~", "\n", "~", "~", "~", "b", "a", "s", "h", "\n", "c", "u",
      "r", "l", " ", "h", "t", "t", "p", ":", "/", "/", "x", ".", "e", "x", "a", "m", "p", "l",
      "e", "/", "i", "\n", "~", "~", "~", "\n", "~", "~", "~", "s", "h", "\n", "e", "c", "h",
      "o", " ", "b", "l", "o", "c", "k", " ", "f", "o", "u", "r", "\n", "~", "~", "~", "\n",
      "~", "~", "~", "s", "h", "e", "l", "l", "\n", "e", "c", "h", "o", " ", "b", "l", "o",
      "c", "k", " ", "f", "i", "v", "e", "\n", "~", "~", "~", "\n", "~", "~", "~", "p", "y",
      "t", "h", "o", "n", "\n", "p", "r", "i", "n", "t", "(", "'", "b", "l", "o", "c", "k",
      " ", "6", "'", ")", "\n", "~", "~", "~", "\n">>
K_spoof ==
    <<"-", "-", "-", "\n", "n", "a", "m", "e", ":", " ", "s", "k", "\n", "d", "e", "s", "c",
      "r", "i", "p", "t", "i", "o", "n", ":", " ", "d", "\n", "r", "i", "s", "k", ":", " ",
      "s", "a", "f", "e", "\n", "s", "o", "u", "r", "c", "e", ":", " ", "h", "t", "t", "p",
      "s", ":", "/", "/", "e", "v", "i", "l", ".", "e", "x", "a", "m", "p", "l", "e", "/", "g",
      "i", "t", "h", "u", "b", ".", "c", "o", "m", "/", "g", "o", "o", "g", "l", "e", "/", "x",
      "\n", "t", "r", "u", "s", "t", "_", "l", "e", "v", "e", "l", ":", " ", "v", "e", "r",
      "i", "f", "i", "e", "d", "\n", "-", "-", "-", "\n", "h", "e", "l", "l", "o", "\n">>
K_nofm ==
    <<"h", "e", "l", "l", "o", "\n", "-", "-", "-", "\n", "n", "a", "m", "e", ":", " ", "s",
      "k", "\n", "-", "-", "-", "\n">>
K_open ==
    <<"-", "-", "-", "\n", "n", "a", "m", "e", ":", " ", "s", "k", "\n", "r", "i", "s", "k",
      ":", " ", "s", "a", "f", "e", "\n">>
E_clean ==
    <<>>
E_network ==
    <<"c", "u", "r", "l", ":", " ", "(", "7", ")", " ", "N", "e", "t", "w", "o", "r", "k", " ",
      "u", "n", "r", "e", "a", "c", "h", "a", "b", "l", "e">>
E_denied ==
    <<"s", "h", ":", " ", "P", "e", "r", "m", "i", "s", "s", "i", "o", "n", " ", "d", "e", "n",
      "i", "e", "d", "\n">>
K_loud ==
    <<"-", "-", "-", "\n", "r", "i", "s", "k", ":", " ", "o", "f", "f", "e", "n", "s", "i",
      "v", "e", "\n", "-", "-", "-", "\n", "u", "s", "e", " ", "e", "v", "a", "l", "(", "x",
      ")", " ", "T", "O", "D", "O", " ", "b", "a", "s", "e", "6", "4", " ", "i", "g", "n", "o",
      "r", "e", " ", "p", "r", "e", "v", "i", "o", "u", "s", "\n", "~", "~", "~", "s", "h",
      "\n", "r", "m", " ", "-", "r", "f", " ", "/", "t", "m", "p", "/", "x", "\n", "~", "~",
      "~", "\n", "~", "~", "~", "p", "y", "t", "h", "o", "n", "\n", "m", " ", "=", " ", "_",
      "_", "i", "m", "p", "o", "r", "t", "_", "_", "(", "'", "o", "s", "'", ")", "\n", "~",
      "~", "~", "\n">>
K_noname ==
    <<"-", "-", "-", "\n", "d", "e", "s", "c", "r", "i", "p", "t", "i", "o", "n", ":", " ",
      "d", "\n", "r", "i", "s", "k", ":", " ", "s", "a", "f", "e", "\n", "s", "o", "u", "r",
      "c", "e", ":", " ", "s", "e", "l", "f", "\n", "-", "-", "-", "\n", "h", "e", "l", "l",
      "o", "\n">>
K_othername ==
    <<"-", "-", "-", "\n", "n", "a", "m", "e", ":", " ", "o", "t", "h", "e", "r", "\n", "d",
      "e", "s", "c", "r", "i", "p", "t", "i", "o", "n", ":", " ", "d", "\n", "r", "i", "s",
      "k", ":", " ", "s", "a", "f", "e", "\n", "s", "o", "u", "r", "c", "e", ":", " ", "s",
      "e", "l", "f", "\n", "-", "-", "-", "\n", "h", "e", "l", "l", "o", "\n">>
K_evalnosource ==
    <<"-", "-", "-", "\n", "n", "a", "m", "e", ":", " ", "s", "k", "\n", "d", "e", "s", "c",
      "r", "i", "p", "t", "i", "o", "n", ":", " ", "d", "\n", "r", "i", "s", "k", ":", " ",
      "s", "a", "f", "e", "\n", "-", "-", "-", "\n", "u", "s", "e", " ", "e", "v", "a", "l",
      "(", "x", ")", "\n">>
M_head ==
    <<"-", "-", "-", "\n", "n", "a", "m", "e", ":", " ", "s", "k", "\n", "d", "e", "s", "c",
      "r", "i", "p", "t", "i", "o", "n", ":", " ", "d", "\n", "r", "i", "s", "k", ":", " ",
      "s", "a", "f", "e", "\n">>
M_source ==
    <<"s", "o", "u", "r", "c", "e", ":">>
M_tail ==
    <<"-", "-", "-", "\n", "h", "e", "l", "l", "o", "\n">>
S_local ==
    <<" ", "l", "o", "c", "a", "l">>
S_quoted_self ==
    <<" ", "'", "s", "e", "l", "f", "'">>
S_capital_self ==
    <<" ", "S", "e", "l", "f">>
S_selfish ==
    <<" ", "s", "e", "l", "f", "i", "s", "h">>
S_blank ==
    <<" ", " ">>
S_spaced_unknown ==
    <<" ", "u", "n", "k", "n", "o", "w", "n", " ">>
S_ftp ==
    <<" ", "f", "t", "p", ":", "/", "/", "x", ".", "e", "x", "a", "m", "p", "l", "e", "/", "y">>
S_capital_http ==
    <<" ", "H", "T", "T", "P", ":", "/", "/", "x", ".", "e", "x", "a", "m", "p", "l", "e">>
S_htt ==
    <<" ", "h", "t", "t">>
S_external ==
    <<" ", "h", "t", "t", "p", ":", "/", "/", "e", "v", "i", "l", ".", "e", "x", "a", "m", "p",
      "l", "e", "/", "x">>
S_google ==
    <<" ", "h", "t", "t", "p", "s", ":", "/", "/", "g", "i", "t", "h", "u", "b", ".", "c", "o",
      "m", "/", "g", "o", "o", "g", "l", "e", "/", "x">>
S_httpd ==
    <<" ", "h", "t", "t", "p", "d", "-", "m", "i", "r", "r", "o", "r">>

(***************************************************************************)
(* str operations.                                                         *)
(***************************************************************************)
Min(S) == CHOOSE x \in S : \A y \in S : x <= y

Max(S) == CHOOSE x \in S : \A y \in S : x >= y

\* \s of the re module (the characters the inputs use)
WS == {" ", "\n", "\t", "\r"}

\* \w of the re module
WordChars ==
    {LowerAlpha[i] : i \in 1..Len(LowerAlpha)} \cup
    {UpperAlpha[i] : i \in 1..Len(UpperAlpha)} \cup
    {Digits[i] : i \in 1..Len(Digits)} \cup {"_"}

\* str.upper / str.lower, one character
UpperChar(c) ==
    IF \E i \in 1..Len(LowerAlpha) : LowerAlpha[i] = c
    THEN UpperAlpha[CHOOSE i \in 1..Len(LowerAlpha) : LowerAlpha[i] = c]
    ELSE c

LowerChar(c) ==
    IF \E i \in 1..Len(UpperAlpha) : UpperAlpha[i] = c
    THEN LowerAlpha[CHOOSE i \in 1..Len(UpperAlpha) : UpperAlpha[i] = c]
    ELSE c

Upper(s) == [i \in 1..Len(s) |-> UpperChar(s[i])]

Lower(s) == [i \in 1..Len(s) |-> LowerChar(s[i])]

\* p occurs in s at index i
StartsAt(s, p, i) ==
    /\ i >= 1
    /\ i + Len(p) - 1 <= Len(s)
    /\ \A k \in 1..Len(p) : s[i + k - 1] = p[k]

\* s.startswith(p)
StartsWith(s, p) == StartsAt(s, p, 1)

\* index of the first occurrence of p in s at or after from, 0 when none
Find(s, p, from) ==
    LET I == {i \in from..Len(s) : StartsAt(s, p, i)}
    IN  IF I = {} THEN 0 ELSE Min(I)

\* p in s
Contains(s, p) == Find(s, p, 1) # 0

\* first index at or after i whose character is not in cs, Len(s)+1 when none
SkipSet(s, i, cs) ==
    LET I == {j \in i..Len(s) : s[j] \notin cs}
    IN  IF I = {} THEN Len(s) + 1 ELSE Min(I)

\* s.strip(cs), cs a set of characters
StripSet(s, cs) ==
    LET I == {j \in 1..Len(s) : s[j] \notin cs}
    IN  IF I = {} THEN <<>> ELSE SubSeq(s, Min(I), Max(I))

\* s.strip()
Strip(s) == StripSet(s, WS)

\* s.split(sep) for a one-character sep
RECURSIVE Split(_, _)
Split(s, sep) ==
    LET i == Find(s, <<sep>>, 1)
    IN  IF i = 0 THEN <<s>>
        ELSE <<SubSeq(s, 1, i - 1)>> \o Split(SubSeq(s, i + 1, Len(s)), sep)

\* dict.get(key, default)
Get(d, key, default) == IF key \in DOMAIN d THEN d[key] ELSE default

\* max([...], default=d) over the severities of a findings list
MaxSeverity(fs, d) ==
    IF fs = <<>> THEN d ELSE Max({fs[i].severity : i \in 1..Len(fs)})

(***************************************************************************)
(* models/skill.py: the Skill Loader.                                      *)
(***************************************************************************)
\* value of a failed frontmatter parse (None)
NoMetadata == [parsed |-> FALSE, map |-> <<>>]

\* the dict built by the loop over fm_text.split('\n'); later lines override
RECURSIVE FrontmatterDict(_, _)
FrontmatterDict(lines, acc) ==
    IF lines = <<>> THEN acc
    ELSE LET line == Head(lines)
             c == Find(line, <<":">>, 1)
         IN  IF c = 0 THEN FrontmatterDict(Tail(lines), acc)
             ELSE LET key == Strip(SubSeq(line, 1, c - 1))
                      val == StripSet(StripSet(Strip(SubSeq(line, c + 1, Len(line))),
                                               {"\""}), {"'"})
                      new == [k \in DOMAIN acc \cup {key} |->
                                 IF k = key THEN val ELSE acc[k]]
                  IN  FrontmatterDict(Tail(lines), new)

\* re.search(r'^---\s*\n(.*?)\n---', content, re.DOTALL): the greedy \s* ends
\* at the last newline of the whitespace run after which a closing "\n---"
\* is still found; the lazy group stops at the first such closing
_parse_frontmatter(content) ==
    IF ~StartsWith(content, Dashes) THEN NoMetadata
    ELSE LET wsEnd == SkipSet(content, 4, WS)
             E == {e \in 4..(wsEnd - 1) :
                      content[e] = "\n" /\ Find(content, NLDashes, e + 1) # 0}
         IN  IF E = {} THEN NoMetadata
             ELSE LET e == Max(E)
                      q == Find(content, NLDashes, e + 1)
                      fm_text == SubSeq(content, e + 1, q - 1)
                  IN  [parsed |-> TRUE,
                       map |-> FrontmatterDict(Split(fm_text, "\n"), <<>>)]

\* re.finditer(r'```(\w*)\n(.*?)```', content, re.DOTALL) from index pos on
RECURSIVE CodeBlocksFrom(_, _)
CodeBlocksFrom(content, pos) ==
    LET Opens(i) == /\ StartsAt(content, Fence, i)
                    /\ LET w == SkipSet(content, i + 3, WordChars)
                       IN  /\ w <= Len(content)
                           /\ content[w] = "\n"
                           /\ Find(content, Fence, w + 1) # 0
        I == {i \in pos..Len(content) : Opens(i)}
    IN  IF I = {} THEN <<>>
        ELSE LET i == Min(I)
                 w == SkipSet(content, i + 3, WordChars)
                 c == Find(content, Fence, w + 1)
                 lang == SubSeq(content, i + 3, w - 1)
             IN  <<[language |-> IF lang = <<>> THEN S_unknown ELSE lang,
                    code |-> SubSeq(content, w + 1, c - 1)]>>
                 \o CodeBlocksFrom(content, c + 3)

_extract_code_blocks(content) == CodeBlocksFrom(content, 1)

\* Skill.__init__ (body is read by no analyzer and is left out)
NewSkill(path_name, name, content, metadata, is_valid) ==
    [path_name |-> path_name, name |-> name, content |-> content,
     metadata |-> metadata, is_valid |-> is_valid,
     code_blocks |-> _extract_code_blocks(content)]

\* from_path with the frontmatter check dropped: a file without a parseable
\* frontmatter block loads as a valid skill with empty metadata
from_path_unchecked(path_name, file, content) ==
    IF file = "missing" THEN NewSkill(path_name, path_name, <<>>, <<>>, FALSE)
    ELSE IF file = "unreadable"
    THEN NewSkill(path_name, path_name, <<>>, (S_error :> <<"E">>), FALSE)
    ELSE LET m == _parse_frontmatter(content)
         IN  NewSkill(path_name, Get(m.map, S_name, path_name), content, m.map, TRUE)

\* Skill.from_path: file is "missing", "unreadable" or "ok"
from_path(path_name, file, content) ==
    IF file = "missing" THEN NewSkill(path_name, path_name, <<>>, <<>>, FALSE)
    ELSE IF file = "unreadable"
    THEN NewSkill(path_name, path_name, <<>>, (S_error :> <<"E">>), FALSE)
    ELSE LET m == _parse_frontmatter(content)
         IN  IF ~m.parsed THEN NewSkill(path_name, path_name, content, <<>>, FALSE)
             ELSE NewSkill(path_name, Get(m.map, S_name, path_name), content,
                           m.map, TRUE)

\* Skill.risk_level
risk_level(s) == Get(s.metadata, S_risk, S_unknown)

\* Skill.is_offensive
is_offensive(s) == risk_level(s) = S_offensive

\* has_disclaimer that compares without upper()
has_disclaimer_exact_case(s) == Contains(s.content, DISCLAIMER)

\* Skill.has_disclaimer
has_disclaimer(s) == Contains(Upper(s.content), DISCLAIMER)

\* Skill.source
source(s) == Get(s.metadata, S_source, S_unknown)

(***************************************************************************)
(* Finding (models/skill.py).  line_number 0 stands for None; snippet and  *)
(* mitigation texts are carried by no decision of the pipeline and are     *)
(* left out.                                                               *)
(***************************************************************************)
Finding(lv, name, description, severity) ==
    [level |-> lv, name |-> name, description |-> description,
     severity |-> severity, line_number |-> 0]

FindingAt(lv, name, description, severity, line) ==
    [level |-> lv, name |-> name, description |-> description,
     severity |-> severity, line_number |-> line]

(***************************************************************************)
(* levels/l1_static.py: the Pattern Engine.                                *)
(***************************************************************************)
\* the fixed bucket order of _detect_patterns
Buckets == <<"critical", "high", "medium", "low">>

\* _check_metadata that tests the risk value also when the label is absent
_check_metadata_risk_unguarded(s) ==
    LET md == s.metadata
        required ==
            (IF S_name \notin DOMAIN md
             THEN <<Finding("L1", "missing_name",
                            "Missing required metadata field: name", 30)>>
             ELSE <<>>)
            \o
            (IF S_description \notin DOMAIN md
             THEN <<Finding("L1", "missing_description",
                            "Missing required metadata field: description", 30)>>
             ELSE <<>>)
        mismatch ==
            IF S_name \notin DOMAIN md \/ md[S_name] # s.path_name
            THEN <<Finding("L1", "name_mismatch",
                           "Name doesn't match folder", 20)>>
            ELSE <<>>
        risk ==
            (IF S_risk \notin DOMAIN md
             THEN <<Finding("L1", "missing_risk",
                            "Missing 'risk' classification label", 35)>>
             ELSE <<>>)
            \o
            (IF Get(md, S_risk, <<>>) \notin {S_none, S_safe, S_critical, S_offensive}
             THEN <<Finding("L1", "invalid_risk", "Invalid risk level", 40)>>
             ELSE <<>>)
        src ==
            IF S_source \notin DOMAIN md
            THEN <<Finding("L1", "missing_source",
                           "Missing source attribution", 15)>>
            ELSE <<>>
    IN  required \o mismatch \o risk \o src

\* StaticAnalyzer._check_metadata
_check_metadata(s) ==
    LET md == s.metadata
        required ==
            (IF S_name \notin DOMAIN md
             THEN <<Finding("L1", "missing_name",
                            "Missing required metadata field: name", 30)>>
             ELSE <<>>)
            \o
            (IF S_description \notin DOMAIN md
             THEN <<Finding("L1", "missing_description",
                            "Missing required metadata field: description", 30)>>
             ELSE <<>>)
        mismatch ==
            IF S_name \notin DOMAIN md \/ md[S_name] # s.path_name
            THEN <<Finding("L1", "name_mismatch",
                           "Name doesn't match folder", 20)>>
            ELSE <<>>
        risk ==
            IF S_risk \notin DOMAIN md
            THEN <<Finding("L1", "missing_risk",
                           "Missing 'risk' classification label", 35)>>
            ELSE IF md[S_risk] \notin {S_none, S_safe, S_critical, S_offensive}
            THEN <<Finding("L1", "invalid_risk", "Invalid risk level", 40)>>
            ELSE <<>>
        src ==
            IF S_source \notin DOMAIN md
            THEN <<Finding("L1", "missing_source",
                           "Missing source attribution", 15)>>
            ELSE <<>>
    IN  required \o mismatch \o risk \o src

\* _is_allowed that looks at the rule names of the entries only
_is_allowed_by_name(config, pattern_name, s) ==
    \E i \in 1..Len(config.allowlist) :
        pattern_name \in config.allowlist[i].patterns

\* StaticAnalyzer._is_allowed
_is_allowed(config, pattern_name, s) ==
    \E i \in 1..Len(config.allowlist) :
        LET entry == config.allowlist[i]
        IN  /\ pattern_name \in entry.patterns
            /\ \/ /\ entry.context = "offensive"
                  /\ is_offensive(s)
                  /\ (has_disclaimer(s) \/ ~entry.requires_disclaimer)
               \/ /\ ~(entry.context = "offensive" /\ is_offensive(s))
                  /\ entry.context = "defensive"
                  /\ risk_level(s) \in {S_safe, S_critical}

\* pattern["regex"].finditer(content) for a literal pattern compiled with
\* re.IGNORECASE: the start indices of the non-overlapping matches
RECURSIVE MatchStarts(_, _, _)
MatchStarts(lowered, pattern, from) ==
    LET i == Find(lowered, pattern, from)
    IN  IF i = 0 THEN <<>>
        ELSE <<i>> \o MatchStarts(lowered, pattern, i + Len(pattern))

\* content[:start].count('\n') + 1
LineNumber(content, start) ==
    Cardinality({j \in 1..(start - 1) : content[j] = "\n"}) + 1

\* the findings of one rule of _detect_patterns
RuleFindings(config, rule, s) ==
    LET starts == MatchStarts(Lower(s.content), Lower(rule.pattern), 1)
    IN  IF _is_allowed(config, rule.name, s) THEN <<>>
        ELSE [k \in 1..Len(starts) |->
                 FindingAt("L1", rule.name, rule.description, rule.severity,
                           LineNumber(s.content, starts[k]))]

RECURSIVE RulesFindings(_, _, _)
RulesFindings(config, rules, s) ==
    IF rules = <<>> THEN <<>>
    ELSE RuleFindings(config, Head(rules), s) \o RulesFindings(config, Tail(rules), s)

\* StaticAnalyzer._detect_patterns
_detect_patterns(config, s) ==
    RulesFindings(config, config.patterns[Buckets[1]], s)
    \o RulesFindings(config, config.patterns[Buckets[2]], s)
    \o RulesFindings(config, config.patterns[Buckets[3]], s)
    \o RulesFindings(config, config.patterns[Buckets[4]], s)

\* re.search(r'rm\s+-rf\s+/', code)
MatchesRmRf(code) ==
    \E i \in 1..Len(code) :
        /\ StartsAt(code, S_rm, i)
        /\ LET a == SkipSet(code, i + 2, WS)
           IN  /\ a > i + 2
               /\ StartsAt(code, S_rf, a)
               /\ LET b == SkipSet(code, a + 3, WS)
                  IN  b > a + 3 /\ StartsAt(code, <<"/">>, b)

\* re.search(r'__import__\s*\(', code)
MatchesDunderImport(code) ==
    \E i \in 1..Len(code) :
        /\ StartsAt(code, S_dunder_import, i)
        /\ StartsAt(code, <<"(">>, SkipSet(code, i + Len(S_dunder_import), WS))

\* StaticAnalyzer._analyze_code_blocks
RECURSIVE _analyze_code_blocks(_)
_analyze_code_blocks(blocks) ==
    IF blocks = <<>> THEN <<>>
    ELSE LET block == Head(blocks)
             shell ==
                 IF /\ block.language \in {S_bash, S_sh, S_shell, S_zsh}
                    /\ MatchesRmRf(block.code)
                 THEN <<Finding("L1", "destructive_shell",
                                "Potentially destructive shell command (rm -rf /)", 95)>>
                 ELSE <<>>
             python ==
                 IF /\ block.language \in {S_python, S_py}
                    /\ MatchesDunderImport(block.code)
                 THEN <<Finding("L1", "dynamic_import",
                                "Dynamic import pattern detected", 50)>>
                 ELSE <<>>
         IN  shell \o python \o _analyze_code_blocks(Tail(blocks))

\* list.sort(key=lambda f: f.severity, reverse=True): stable, so findings of
\* equal severity keep their order
\* InsertBySeverity that puts a finding before those of equal severity
RECURSIVE InsertBySeverity_before_equals(_, _)
InsertBySeverity_before_equals(sorted, f) ==
    IF sorted = <<>> THEN <<f>>
    ELSE IF Head(sorted).severity > f.severity
    THEN <<Head(sorted)>> \o InsertBySeverity_before_equals(Tail(sorted), f)
    ELSE <<f>> \o sorted

RECURSIVE InsertBySeverity(_, _)
InsertBySeverity(sorted, f) ==
    IF sorted = <<>> THEN <<f>>
    ELSE IF Head(sorted).severity >= f.severity
    THEN <<Head(sorted)>> \o InsertBySeverity(Tail(sorted), f)
    ELSE <<f>> \o sorted

RECURSIVE SortBySeverityDesc(_)
SortBySeverityDesc(fs) ==
    IF fs = <<>> THEN <<>>
    ELSE InsertBySeverity(SortBySeverityDesc(SubSeq(fs, 1, Len(fs) - 1)), fs[Len(fs)])

\* StaticAnalyzer.analyze
L1Analyze(config, s) ==
    SortBySeverityDesc(
        _check_metadata(s)
        \o _detect_patterns(config, s)
        \o _analyze_code_blocks(s.code_blocks)
        \o (IF is_offensive(s) /\ ~has_disclaimer(s)
            THEN <<Finding("L1", "missing_disclaimer",
                           "Offensive skill missing 'AUTHORIZED USE ONLY' disclaimer", 90)>>
            ELSE <<>>))

(***************************************************************************)
(* levels/l2_semantic.py: the Semantic Oracle Adapter.  An analysis is the *)
(* dict parsed from the oracle's reply ("error" present when parsing       *)
(* failed); its keys may be absent, as in the JSON.                        *)
(***************************************************************************)
\* stop_after_attempt(3) of the retry decorator of _analyze_async
MaxAttempts == 3

\* the length item.get("evidence", "") is cut to
MaxSnippet == 200

\* OracleItemFindings that carries the evidence whole
OracleItemFindings_whole_evidence(items) ==
    [k \in 1..Len(items) |->
        [level |-> "L2", name |-> Get(items[k], "type", "unknown"),
         description |-> Get(items[k], "description", ""),
         severity |-> Get(items[k], "severity", 50), line_number |-> 0,
         code_snippet |-> Get(items[k], "evidence", <<>>)]]

\* the findings of the loop over analysis.get("findings", []); they carry
\* the evidence, a str, as code_snippet
OracleItemFindings(items) ==
    [k \in 1..Len(items) |->
        LET evidence == Get(items[k], "evidence", <<>>)
        IN  [level |-> "L2", name |-> Get(items[k], "type", "unknown"),
             description |-> Get(items[k], "description", ""),
             severity |-> Get(items[k], "severity", 50), line_number |-> 0,
             code_snippet |-> SubSeq(evidence, 1, Min({MaxSnippet, Len(evidence)}))]]

\* SemanticAnalyzer._convert_to_findings
_convert_to_findings(analysis) ==
    IF "error" \in DOMAIN analysis
    THEN <<Finding("L2", "parse_error", analysis["error"], 10)>>
    ELSE LET risk_score == Get(analysis, "risk_score", 0)
         IN  OracleItemFindings(Get(analysis, "findings", <<>>))
             \o (IF risk_score >= 60
                 THEN <<Finding("L2", "high_risk_assessment",
                                Get(analysis, "summary", "High risk skill detected"),
                                risk_score)>>
                 ELSE <<>>)

\* SemanticAnalyzer.analyze.  configured: API URL and key are both set;
\* failures: how many requests of _analyze_async raised before one returned
\* (MaxAttempts: every attempt raised and the retry gave up)
\* analyze that takes the oracle for configured when the key alone is set
L2Analyze_key_only(config, failures, analysis) ==
    IF config.api_key = ""
    THEN <<Finding("L2", "gemini_not_configured",
                   "Gemini API not configured - skipping semantic analysis", 0)>>
    ELSE IF failures >= MaxAttempts
    THEN <<Finding("L2", "analysis_error", "Semantic analysis failed", 10)>>
    ELSE _convert_to_findings(analysis)

L2Analyze(config, failures, analysis) ==
    IF config.api_url = "" \/ config.api_key = ""
    THEN <<Finding("L2", "gemini_not_configured",
                   "Gemini API not configured - skipping semantic analysis", 0)>>
    ELSE IF failures >= MaxAttempts
    THEN <<Finding("L2", "analysis_error", "Semantic analysis failed", 10)>>
    ELSE _convert_to_findings(analysis)

(***************************************************************************)
(* levels/l3_dynamic.py: the Isolation Executor.                           *)
(***************************************************************************)
\* testable[:5] of _extract_testable_code
MaxTestable == 5

\* len(code.strip()) > 10 of _extract_testable_code
MinCodeLen == 10

\* the lines of a block that are neither blank nor comments
CodeLines(code) ==
    LET ls == Split(Strip(code), "\n")
    IN  {k \in 1..Len(ls) :
            Strip(ls[k]) # <<>> /\ ~StartsWith(Strip(ls[k]), <<"#">>)}

\* DynamicAnalyzer._extract_testable_code
RECURSIVE Testable(_)
Testable(blocks) ==
    IF blocks = <<>> THEN <<>>
    ELSE LET block == Head(blocks)
             lang == Lower(block.language)
         IN  (IF /\ lang \in {S_python, S_py, S_bash, S_sh, S_shell}
                 /\ CodeLines(block.code) # {}
                 /\ Len(Strip(block.code)) > MinCodeLen
              THEN <<[language |-> lang, code |-> block.code]>>
              ELSE <<>>)
             \o Testable(Tail(blocks))

\* _extract_testable_code without the limit
_extract_testable_code_unlimited(s) == Testable(s.code_blocks)

_extract_testable_code(s) ==
    LET t == Testable(s.code_blocks)
    IN  SubSeq(t, 1, IF Len(t) < MaxTestable THEN Len(t) ELSE MaxTestable)

\* suspicious_patterns of _analyze_execution_result; the fourth component is
\* the pattern as it appears in the description
suspicious_patterns ==
    << <<P_permission_denied, "permission_denied", 40, "permission denied">>,
       <<P_network_unreachable, "network_attempt", 70, "network unreachable">>,
       <<P_connection_refused, "network_attempt", 60, "connection refused">>,
       <<P_curl, "external_request", 65, "curl:">>,
       <<P_wget, "external_request", 65, "wget:">>,
       <<P_socket_error, "socket_usage", 55, "socket.error">>,
       <<P_subprocess, "subprocess_call", 50, "subprocess">> >>

\* SuspiciousFindings that leaves the loop at the first pattern found
RECURSIVE SuspiciousFindings_first_only(_, _, _)
SuspiciousFindings_first_only(stderr, block_index, k) ==
    IF k > Len(suspicious_patterns) THEN <<>>
    ELSE IF Contains(stderr, suspicious_patterns[k][1])
    THEN <<Finding("L3", suspicious_patterns[k][2],
                   "Suspicious activity detected in block "
                       \o ToString(block_index) \o ": "
                       \o suspicious_patterns[k][4],
                   suspicious_patterns[k][3])>>
    ELSE SuspiciousFindings_first_only(stderr, block_index, k + 1)

RECURSIVE SuspiciousFindings(_, _, _)
SuspiciousFindings(stderr, block_index, k) ==
    IF k > Len(suspicious_patterns) THEN <<>>
    ELSE (IF Contains(stderr, suspicious_patterns[k][1])
          THEN <<Finding("L3", suspicious_patterns[k][2],
                         "Suspicious activity detected in block "
                             \o ToString(block_index) \o ": "
                             \o suspicious_patterns[k][4],
                         suspicious_patterns[k][3])>>
          ELSE <<>>)
         \o SuspiciousFindings(stderr, block_index, k + 1)

\* DynamicAnalyzer._analyze_execution_result
_analyze_execution_result(stderr, returncode, block_index) ==
    SuspiciousFindings(Lower(stderr), block_index, 1)
    \o (IF returncode # 0 /\ returncode # 1
        THEN <<Finding("L3", "abnormal_exit",
                       "Code block " \o ToString(block_index)
                           \o " exited with code " \o ToString(returncode), 30)>>
        ELSE <<>>)

\* SandboxFindings with the timed-out block counted from one
SandboxFindings_one_based(run, block_index) ==
    IF run.kind = "completed"
    THEN _analyze_execution_result(run.stderr, run.returncode, block_index)
    ELSE IF run.kind = "timeout"
    THEN <<Finding("L3", "execution_timeout",
                   "Code block " \o ToString(block_index + 1)
                       \o " exceeded timeout (30s)", 60)>>
    ELSE <<Finding("L3", "sandbox_error", "Sandbox execution error", 10)>>

\* the findings of one _run_in_sandbox call whose temporary file was written:
\* run is what subprocess.run did (the configured timeout is the default, 30)
SandboxFindings(run, block_index) ==
    IF run.kind = "completed"
    THEN _analyze_execution_result(run.stderr, run.returncode, block_index)
    ELSE IF run.kind = "timeout"
    THEN <<Finding("L3", "execution_timeout",
                   "Code block " \o ToString(block_index)
                       \o " exceeded timeout (30s)", 60)>>
    ELSE <<Finding("L3", "sandbox_error", "Sandbox execution error", 10)>>

(***************************************************************************)
(* levels/l4_trust.py: the Trust Ledger.                                   *)
(***************************************************************************)
\* trusted_domains of _verify_source
trusted_domains == <<D_anthropics, D_google, D_microsoft, D_openai>>

\* _verify_source that reports every source it does not recognise
_verify_source_reports_other(s) ==
    LET src == source(s)
    IN  IF src = S_unknown \/ src = <<>>
        THEN <<Finding("L4", "unknown_source", "Skill has no source attribution", 40)>>
        ELSE IF src = S_self
        THEN <<Finding("L4", "self_attributed",
                       "Skill is self-attributed (original work)", 10)>>
        ELSE <<Finding("L4", "external_source", "Source from external repository", 20)>>

\* TrustVerifier._verify_source
_verify_source(s) ==
    LET src == source(s)
    IN  IF src = S_unknown \/ src = <<>>
        THEN <<Finding("L4", "unknown_source", "Skill has no source attribution", 40)>>
        ELSE IF src = S_self
        THEN <<Finding("L4", "self_attributed",
                       "Skill is self-attributed (original work)", 10)>>
        ELSE IF StartsWith(src, S_http)
        THEN IF \E k \in 1..Len(trusted_domains) : Contains(src, trusted_domains[k])
             THEN <<Finding("L4", "trusted_source", "Source from trusted repository", 0)>>
             ELSE <<Finding("L4", "external_source",
                            "Source from external repository", 20)>>
        ELSE <<>>

\* TrustVerifier._verify_signature; sig_exists: SKILL.md.sig is in the folder
_verify_signature(sig_exists) ==
    IF ~sig_exists
    THEN <<Finding("L4", "missing_signature",
                   "No signature file found (SKILL.md.sig)", 30)>>
    ELSE <<Finding("L4", "signature_found",
                   "Signature file exists (verification not implemented)", 5)>>

\* _verify_author that looks at the trust-level tag before the registry
_verify_author_tag_first(trusted_authors, s) ==
    LET author == Get(s.metadata, S_author, S_unknown)
        trust_level == Get(s.metadata, S_trust_level, S_community)
    IN  IF trust_level = S_official
        THEN <<Finding("L4", "official_skill", "Skill marked as official", 0)>>
        ELSE IF trust_level = S_verified
        THEN <<Finding("L4", "verified_skill", "Skill marked as verified", 5)>>
        ELSE IF author \in DOMAIN trusted_authors
        THEN LET info == trusted_authors[author]
                 reputation == Get(info, "reputation", 50)
                 verified == Get(info, "verified", FALSE)
             IN  IF verified /\ reputation >= 80
                 THEN <<Finding("L4", "trusted_author", "Author is verified", 0)>>
                 ELSE IF reputation >= 50
                 THEN <<Finding("L4", "known_author", "Author is known", 10)>>
                 ELSE <<Finding("L4", "low_reputation",
                                "Author has low reputation", 40)>>
        ELSE <<Finding("L4", "community_skill",
                       "Community-contributed skill (not individually verified)", 15)>>

\* _verify_author that is silent about an unregistered author with no tag
_verify_author_registered_only(trusted_authors, s) ==
    LET author == Get(s.metadata, S_author, S_unknown)
        trust_level == Get(s.metadata, S_trust_level, S_community)
    IN  IF author \in DOMAIN trusted_authors
        THEN <<Finding("L4", "known_author", "Author is known", 10)>>
        ELSE IF trust_level = S_official
        THEN <<Finding("L4", "official_skill", "Skill marked as official", 0)>>
        ELSE IF trust_level = S_verified
        THEN <<Finding("L4", "verified_skill", "Skill marked as verified", 5)>>
        ELSE <<>>

\* TrustVerifier._verify_author
_verify_author(trusted_authors, s) ==
    LET author == Get(s.metadata, S_author, S_unknown)
        trust_level == Get(s.metadata, S_trust_level, S_community)
    IN  IF author \in DOMAIN trusted_authors
        THEN LET info == trusted_authors[author]
                 reputation == Get(info, "reputation", 50)
                 verified == Get(info, "verified", FALSE)
             IN  IF verified /\ reputation >= 80
                 THEN <<Finding("L4", "trusted_author", "Author is verified", 0)>>
                 ELSE IF reputation >= 50
                 THEN <<Finding("L4", "known_author", "Author is known", 10)>>
                 ELSE <<Finding("L4", "low_reputation",
                                "Author has low reputation", 40)>>
        ELSE IF trust_level = S_official
        THEN <<Finding("L4", "official_skill", "Skill marked as official", 0)>>
        ELSE IF trust_level = S_verified
        THEN <<Finding("L4", "verified_skill", "Skill marked as verified", 5)>>
        ELSE <<Finding("L4", "community_skill",
                       "Community-contributed skill (not individually verified)", 15)>>

\* the findings list of TrustVerifier.verify
L4Verify(cfg, s, sig_exists) ==
    _verify_source(s)
    \o (IF cfg.require_signature THEN _verify_signature(sig_exists) ELSE <<>>)
    \o _verify_author(cfg.trusted_authors, s)

\* position of a character in Alphabet, 0 for any other character
CharCode(c) ==
    IF \E i \in 1..Len(Alphabet) : Alphabet[i] = c
    THEN CHOOSE i \in 1..Len(Alphabet) : Alphabet[i] = c
    ELSE 0

\* TrustVerifier._calculate_hash: a deterministic digest of the content; the
\* model's digest is a 16-bit position-weighted checksum in place of SHA-256
RECURSIVE WeightedSum(_, _, _)
WeightedSum(content, lo, hi) ==
    IF lo > hi THEN 0
    ELSE IF lo = hi THEN lo * CharCode(content[lo])
    ELSE LET mid == (lo + hi) \div 2
         IN  WeightedSum(content, lo, mid) + WeightedSum(content, mid + 1, hi)

_calculate_hash(s) == WeightedSum(s.content, 1, Len(s.content)) % 65536

\* the audit_entry of TrustVerifier._log_audit (the timestamp is left out)
AuditEntry(s, content_hash, fs) ==
    [skill_name |-> s.name, skill_path |-> s.path_name,
     content_hash |-> content_hash, source |-> source(s),
     risk_level |-> risk_level(s), findings_count |-> Len(fs),
     max_severity |-> MaxSeverity(fs, 0)]

(***************************************************************************)
(* scanner.py: the Risk Aggregator.                                        *)
(***************************************************************************)
\* risk_scores of _get_permission_score
risk_scores ==
    (S_none :> 0) @@ (S_safe :> 20) @@ (S_critical :> 60) @@
    (S_offensive :> 90) @@ (S_unknown :> 50)

\* the loop "for perm in permissions" over the declared value, a str: each
\* perm is one character of it
RECURSIVE MaxPermScore(_, _, _)
MaxPermScore(permission_scores, permissions, n) ==
    IF n = 0 THEN 0
    ELSE LET max_score == MaxPermScore(permission_scores, permissions, n - 1)
             perm == <<permissions[n]>>
         IN  IF /\ perm \in DOMAIN permission_scores
                /\ permission_scores[perm].score > max_score
             THEN permission_scores[perm].score
             ELSE max_score

\* SkillScanner._get_permission_score
_get_permission_score(thresholds, s) ==
    LET permissions == Get(s.metadata, S_permissions, <<>>)
    IN  IF permissions = <<>>
        THEN Get(risk_scores, Get(s.metadata, S_risk, S_unknown), 50)
        ELSE MaxPermScore(thresholds.permissions, permissions, Len(permissions))

\* _get_source_trust_score with the declared source taken into account
_get_source_trust_score_by_source(thresholds, s) ==
    LET trust_level == Get(s.metadata, S_trust_level, S_community)
    IN  IF source(s) = S_self THEN 10
        ELSE IF trust_level \in DOMAIN thresholds.source_trust
        THEN thresholds.source_trust[trust_level].score
        ELSE 50

\* SkillScanner._get_source_trust_score
_get_source_trust_score(thresholds, s) ==
    LET trust_level == Get(s.metadata, S_trust_level, S_community)
    IN  IF trust_level \in DOMAIN thresholds.source_trust
        THEN thresholds.source_trust[trust_level].score
        ELSE 50

\* SkillScanner._calculate_risk_score, in ten-thousandths
_calculate_risk_score(thresholds, s, fs) ==
    LET weights == thresholds.weights
        pattern_score == MaxSeverity(fs, 0)
        permission_score == _get_permission_score(thresholds, s)
        source_score == _get_source_trust_score(thresholds, s)
        community_score == 0
        risk_score == weights.pattern_severity * pattern_score
                      + weights.permission_scope * permission_score
                      + weights.source_trust * source_score
                      + weights.community_reports * community_score
    IN  IF risk_score > 10000 THEN 10000 ELSE risk_score

\* _classify_risk with the buckets tested from the lowest up
_classify_risk_lowest_first(thresholds, score) ==
    IF score >= thresholds.thresholds.medium.min * 100 THEN "medium"
    ELSE IF score >= thresholds.thresholds.high.min * 100 THEN "high"
    ELSE IF score >= thresholds.thresholds.critical.min * 100 THEN "critical"
    ELSE "low"

\* SkillScanner._classify_risk; the configured minima are hundredths
_classify_risk(thresholds, score) ==
    IF score >= thresholds.thresholds.critical.min * 100 THEN "critical"
    ELSE IF score >= thresholds.thresholds.high.min * 100 THEN "high"
    ELSE IF score >= thresholds.thresholds.medium.min * 100 THEN "medium"
    ELSE "low"

\* None
None == "<None>"

\* InvalidResult classified as a result that needs review
InvalidResult_flagged(path_name) ==
    [name |-> path_name, path |-> path_name, is_valid |-> FALSE,
     risk_score |-> 0, classification |-> "high", findings |-> <<>>,
     top_finding |-> None,
     error |-> "Invalid skill: Missing or malformed SKILL.md"]

\* the SkillResult scan_skill returns for a skill that failed to load
InvalidResult(path_name) ==
    [name |-> path_name, path |-> path_name, is_valid |-> FALSE,
     risk_score |-> 0, classification |-> "low", findings |-> <<>>,
     top_finding |-> None,
     error |-> "Invalid skill: Missing or malformed SKILL.md"]

\* the SkillResult scan_skill returns for a loaded skill
ValidResult(thresholds, s, fs) ==
    LET risk_score == _calculate_risk_score(thresholds, s, fs)
    IN  [name |-> s.name, path |-> s.path_name, is_valid |-> TRUE,
         risk_score |-> risk_score,
         classification |-> _classify_risk(thresholds, risk_score),
         findings |-> fs,
         top_finding |-> IF fs # <<>> THEN fs[1].description ELSE None,
         error |-> None]

(***************************************************************************)
(* Configurations and inputs.  config/patterns.yaml and                    *)
(* config/thresholds.yaml are read by SkillScanner._load_config; rule      *)
(* patterns are literals.                                                  *)
(***************************************************************************)
Rule(name, pattern, severity, description) ==
    [name |-> name, pattern |-> pattern, severity |-> severity,
     description |-> description]

Allowlist ==
    << [patterns |-> {"eval_exec"}, context |-> "offensive",
        requires_disclaimer |-> TRUE],
       [patterns |-> {"base64_blob"}, context |-> "defensive",
        requires_disclaimer |-> FALSE] >>

\* a rule table whose severities are all within [0, 1]
PatternsPlain ==
    [patterns |->
        [critical |-> <<Rule("eval_exec", R_eval, 95, "Dynamic code execution")>>,
         high |-> <<Rule("prompt_injection", R_ignore, 80, "Prompt injection")>>,
         medium |-> <<Rule("base64_blob", R_base64, 50, "Encoded payload")>>,
         low |-> <<Rule("todo_marker", R_todo, 10, "Unfinished text")>>],
     allowlist |-> Allowlist]

\* a rule table with one severity above 1.0
PatternsWide ==
    [patterns |->
        [critical |-> <<Rule("eval_exec", R_eval, 95, "Dynamic code execution")>>,
         high |-> <<Rule("prompt_injection", R_ignore, 80, "Prompt injection")>>,
         medium |-> <<Rule("base64_blob", R_base64, 50, "Encoded payload")>>,
         low |-> <<Rule("todo_marker", R_todo, 150, "Unfinished text")>>],
     allowlist |-> Allowlist]

\* a rule table with a rule against fetching from the network and a rule of
\* the low bucket that is as severe as the one of the critical bucket
PatternsStrict ==
    [patterns |->
        [critical |-> <<Rule("eval_exec", R_eval, 95, "Dynamic code execution")>>,
         high |-> <<Rule("prompt_injection", R_ignore, 80, "Prompt injection"),
                    Rule("remote_fetch", R_fetch, 70, "Fetches from the network")>>,
         medium |-> <<Rule("base64_blob", R_base64, 50, "Encoded payload")>>,
         low |-> <<Rule("todo_marker", R_todo, 95, "Unfinished text")>>],
     allowlist |-> Allowlist]

\* the weights of the docstring of _calculate_risk_score
Weights ==
    [pattern_severity |-> 40, permission_scope |-> 30, source_trust |-> 20,
     community_reports |-> 10]

ThresholdsPlain ==
    [weights |-> Weights,
     permissions |-> (S_net :> [score |-> 80]) @@ (S_fs :> [score |-> 60]),
     source_trust |-> (S_official :> [score |-> 10]) @@ (S_verified :> [score |-> 30])
                      @@ (S_community :> [score |-> 50]),
     thresholds |-> [critical |-> [min |-> 80], high |-> [min |-> 60],
                     medium |-> [min |-> 30]]]

\* a table that rewards official skills with a negative trust score
ThresholdsBonus ==
    [weights |-> Weights,
     permissions |-> (S_net :> [score |-> 80]) @@ (S_fs :> [score |-> 60]),
     source_trust |-> (S_official :> [score |-> -50]) @@ (S_verified :> [score |-> 30])
                      @@ (S_community :> [score |-> 50]),
     thresholds |-> [critical |-> [min |-> 80], high |-> [min |-> 60],
                     medium |-> [min |-> 30]]]

\* the trust registry (TRUSTED_AUTHORS_FILE)
Registry ==
    (A_al :> [reputation |-> 90, verified |-> TRUE]) @@
    (A_bo :> [reputation |-> 60, verified |-> FALSE]) @@
    (A_cy :> [reputation |-> 20, verified |-> FALSE])

Env(sandbox_enabled, docker_available, gemini, require_signature) ==
    [sandbox_enabled |-> sandbox_enabled, docker_available |-> docker_available,
     api_url |-> gemini[1], api_key |-> gemini[2],
     require_signature |-> require_signature, trusted_authors |-> Registry]

\* the deployments a scanner is constructed in
Deployments ==
    { [patterns |-> PatternsPlain, thresholds |-> ThresholdsPlain,
       env |-> Env(TRUE, TRUE, <<"https://oracle/v1", "key">>, FALSE)],
      [patterns |-> PatternsPlain, thresholds |-> ThresholdsPlain,
       env |-> Env(FALSE, TRUE, <<"https://oracle/v1", "key">>, TRUE)],
      [patterns |-> PatternsPlain, thresholds |-> ThresholdsPlain,
       env |-> Env(TRUE, FALSE, <<"", "">>, FALSE)],
      [patterns |-> PatternsWide, thresholds |-> ThresholdsPlain,
       env |-> Env(TRUE, TRUE, <<"https://oracle/v1", "key">>, FALSE)],
      [patterns |-> PatternsPlain, thresholds |-> ThresholdsBonus,
       env |-> Env(TRUE, TRUE, <<"https://oracle/v1", "key">>, FALSE)],
      [patterns |-> PatternsStrict, thresholds |-> ThresholdsPlain,
       env |-> Env(TRUE, TRUE, <<"https://oracle/v1", "">>, FALSE)],
      [patterns |-> PatternsPlain, thresholds |-> ThresholdsPlain,
       env |-> Env(TRUE, TRUE, <<"", "key">>, FALSE)] }

\* the contents of SKILL.md files handed to the scanner
Contents ==
    {K_clean, K_nosource, K_offensive, K_authorized, K_shell, K_eval,
     K_norisk, K_nodesc, K_critical, K_many, K_spoof, K_nofm, K_open, K_noname,
     K_othername, K_evalnosource}

\* the values of the level argument
LevelArgs == {"all", "L1", "L2", "L3", "L4", "l1", "l4", "L5"}

\* replies of the semantic oracle, as parsed by _parse_openai_response
Analyses ==
    { [error |-> "No response from model"],
      [findings |-> <<>>, risk_score |-> 10],
      [findings |-> <<>>, risk_score |-> 60, summary |-> "Borderline"],
      [findings |-> <<[type |-> "excessive_agency",
                       description |-> "asks for more than it needs",
                       severity |-> 20],
                      [type |-> "prompt_injection",
                       description |-> "overrides the system prompt",
                       severity |-> 90]>>,
       risk_score |-> 70, summary |-> "Likely malicious"],
      [findings |-> <<[type |-> "obfuscation"]>>],
      [findings |-> <<[type |-> "malicious_code", description |-> "wipes the disk",
                       severity |-> 150]>>,
       risk_score |-> 120],
      [findings |-> <<[type |-> "hidden_instruction", description |-> "benign",
                       severity |-> -500]>>,
       risk_score |-> 0] }

\* what one subprocess.run of the sandbox provider can do
Runs ==
    { [kind |-> "completed", stderr |-> E_clean, returncode |-> 0],
      [kind |-> "completed", stderr |-> E_network, returncode |-> 7],
      [kind |-> "completed", stderr |-> E_denied, returncode |-> 1],
      [kind |-> "timeout", stderr |-> E_clean, returncode |-> 0],
      [kind |-> "error", stderr |-> E_clean, returncode |-> 0] }

(***************************************************************************)
(* scanner.py: the Pipeline Orchestrator.  One behaviour is one call of    *)
(* scan_skill on a freshly constructed scanner.                            *)
(***************************************************************************)
\* the verify calls that may be in _log_audit at the same time
MaxWriters == 3

NoSkill == NewSkill(<<>>, <<>>, <<>>, <<>>, FALSE)

Init ==
    /\ \E d \in Deployments :
          /\ patterns_config = d.patterns
          /\ thresholds_config = d.thresholds
          /\ env = d.env
    /\ pc = "idle"
    /\ level = "all"
    /\ skill = NoSkill
    /\ findings = <<>>
    /\ invoked = {}
    /\ l2_attempts = 0
    /\ l3_blocks = <<>>
    /\ l3_index = 0
    /\ l3_findings = <<>>
    /\ executed = 0
    /\ temp_files = {}
    /\ audit_log = <<>>
    /\ raised = None
    /\ result = <<>>
    /\ log_file = <<>>
    /\ writer = [w \in 1..MaxWriters |-> [pc |-> "entry", buffer |-> <<>>]]
    /\ strict = FALSE
    /\ exit_code = <<>>
    /\ results = <<>>
    /\ report = <<>>
    /\ applied = [method |-> "none", args |-> <<>>]
    /\ returned = <<>>

\* L4Levels with the single-level selectors dropped
L4Levels_all_only == {"all"}

\* the values of level that select each analyzer
L1Levels == {"all", "L1", "l1"}

L2Levels == {"all", "L2", "l2"}

L3Levels == {"all", "L3", "l3"}

L4Levels == {"all", "L4", "l4"}

\* ShouldRunL2 with a strict comparison
ShouldRunL2_strict(s, fs) ==
    \/ Get(s.metadata, S_risk, <<>>) = S_offensive
    \/ \E i \in 1..Len(fs) : fs[i].severity > 30

\* the escalation gate of L2
ShouldRunL2(s, fs) ==
    \/ Get(s.metadata, S_risk, <<>>) = S_offensive
    \/ \E i \in 1..Len(fs) : fs[i].severity >= 30

\* ShouldRunL3 whose maximum over no findings is 1.0
ShouldRunL3_default_one(fs) == MaxSeverity(fs, 100) >= 60

\* ShouldRunL3 reading only the findings of L1
ShouldRunL3_l1_only(fs) ==
    \E i \in 1..Len(fs) : fs[i].level = "L1" /\ fs[i].severity >= 60

\* the escalation gate of L3
ShouldRunL3(fs) == MaxSeverity(fs, 0) >= 60

\* scan_skill up to the validity check: Skill.from_path, and the early return
ScanSkill(file, content, lvl) ==
    /\ pc = "idle"
    /\ level' = lvl
    /\ LET s == from_path(FolderName, file, content)
       IN  /\ skill' = s
           /\ IF s.is_valid
              THEN pc' = "L1" /\ result' = result
              ELSE pc' = "done" /\ result' = <<InvalidResult(FolderName)>>
    /\ UNCHANGED <<patterns_config, thresholds_config, env, findings, invoked,
                   l2_attempts, l3_blocks, l3_index, l3_findings, executed,
                   temp_files, audit_log, raised>>
    /\ UNCHANGED <<log_file, writer, strict, exit_code, results, report, applied,
                   returned>>

RunL1 ==
    /\ pc = "L1"
    /\ level \in L1Levels
    /\ findings' = findings \o L1Analyze(patterns_config, skill)
    /\ invoked' = invoked \cup {"L1"}
    /\ pc' = "L2"
    /\ UNCHANGED <<patterns_config, thresholds_config, env, level, skill,
                   l2_attempts, l3_blocks, l3_index, l3_findings, executed,
                   temp_files, audit_log, raised, result>>
    /\ UNCHANGED <<log_file, writer, strict, exit_code, results, report, applied,
                   returned>>

SkipL1 ==
    /\ pc = "L1"
    /\ level \notin L1Levels
    /\ pc' = "L2"
    /\ UNCHANGED <<patterns_config, thresholds_config, env, level, skill, findings,
                   invoked, l2_attempts, l3_blocks, l3_index, l3_findings,
                   executed, temp_files, audit_log, raised, result>>
    /\ UNCHANGED <<log_file, writer, strict, exit_code, results, report, applied,
                   returned>>

\* RunL2 whose retry makes one more request after the third failure
RunL2_retry_again(failures, analysis) ==
    /\ pc = "L2"
    /\ level \in L2Levels
    /\ ShouldRunL2(skill, findings)
    /\ findings' = findings \o L2Analyze(env, failures, analysis)
    /\ l2_attempts' = IF env.api_url = "" \/ env.api_key = "" THEN 0 ELSE failures + 1
    /\ invoked' = invoked \cup {"L2"}
    /\ pc' = "L3"
    /\ UNCHANGED <<patterns_config, thresholds_config, env, level, skill,
                   l3_blocks, l3_index, l3_findings, executed, temp_files,
                   audit_log, raised, result>>
    /\ UNCHANGED <<log_file, writer, strict, exit_code, results, report, applied,
                   returned>>

RunL2(failures, analysis) ==
    /\ pc = "L2"
    /\ level \in L2Levels
    /\ ShouldRunL2(skill, findings)
    /\ findings' = findings \o L2Analyze(env, failures, analysis)
    /\ l2_attempts' = IF env.api_url = "" \/ env.api_key = "" THEN 0
                      ELSE IF failures >= MaxAttempts THEN MaxAttempts
                      ELSE failures + 1
    /\ invoked' = invoked \cup {"L2"}
    /\ pc' = "L3"
    /\ UNCHANGED <<patterns_config, thresholds_config, env, level, skill,
                   l3_blocks, l3_index, l3_findings, executed, temp_files,
                   audit_log, raised, result>>
    /\ UNCHANGED <<log_file, writer, strict, exit_code, results, report, applied,
                   returned>>

SkipL2 ==
    /\ pc = "L2"
    /\ ~(level \in L2Levels /\ ShouldRunL2(skill, findings))
    /\ pc' = "L3"
    /\ UNCHANGED <<patterns_config, thresholds_config, env, level, skill, findings,
                   invoked, l2_attempts, l3_blocks, l3_index, l3_findings,
                   executed, temp_files, audit_log, raised, result>>
    /\ UNCHANGED <<log_file, writer, strict, exit_code, results, report, applied,
                   returned>>

\* RunL3 without the check of the sandbox policy
RunL3_policy_unchecked ==
    /\ pc = "L3"
    /\ level \in L3Levels
    /\ ShouldRunL3(findings)
    /\ invoked' = invoked \cup {"L3"}
    /\ IF ~env.docker_available
       THEN /\ findings' = findings \o
                   <<Finding("L3", "docker_unavailable",
                             "Docker not available - skipping dynamic analysis", 5)>>
            /\ pc' = "L4"
            /\ UNCHANGED <<l3_blocks, l3_index, l3_findings>>
       ELSE IF _extract_testable_code(skill) = <<>>
       THEN /\ findings' = findings \o
                   <<Finding("L3", "no_testable_code",
                             "No testable code blocks found", 0)>>
            /\ pc' = "L4"
            /\ UNCHANGED <<l3_blocks, l3_index, l3_findings>>
       ELSE /\ l3_blocks' = _extract_testable_code(skill)
            /\ l3_index' = 0
            /\ l3_findings' = <<>>
            /\ pc' = "L3run"
            /\ UNCHANGED findings
    /\ UNCHANGED <<patterns_config, thresholds_config, env, level, skill,
                   l2_attempts, executed, temp_files, audit_log, raised, result>>
    /\ UNCHANGED <<log_file, writer, strict, exit_code, results, report, applied,
                   returned>>

\* DynamicAnalyzer.analyze up to the loop over the testable blocks
RunL3 ==
    /\ pc = "L3"
    /\ level \in L3Levels
    /\ ShouldRunL3(findings)
    /\ invoked' = invoked \cup {"L3"}
    /\ IF ~env.sandbox_enabled
       THEN /\ findings' = findings \o
                   <<Finding("L3", "sandbox_disabled", "Sandbox execution disabled", 0)>>
            /\ pc' = "L4"
            /\ UNCHANGED <<l3_blocks, l3_index, l3_findings>>
       ELSE IF ~env.docker_available
       THEN /\ findings' = findings \o
                   <<Finding("L3", "docker_unavailable",
                             "Docker not available - skipping dynamic analysis", 5)>>
            /\ pc' = "L4"
            /\ UNCHANGED <<l3_blocks, l3_index, l3_findings>>
       ELSE IF _extract_testable_code(skill) = <<>>
       THEN /\ findings' = findings \o
                   <<Finding("L3", "no_testable_code",
                             "No testable code blocks found", 0)>>
            /\ pc' = "L4"
            /\ UNCHANGED <<l3_blocks, l3_index, l3_findings>>
       ELSE /\ l3_blocks' = _extract_testable_code(skill)
            /\ l3_index' = 0
            /\ l3_findings' = <<>>
            /\ pc' = "L3run"
            /\ UNCHANGED findings
    /\ UNCHANGED <<patterns_config, thresholds_config, env, level, skill,
                   l2_attempts, executed, temp_files, audit_log, raised, result>>
    /\ UNCHANGED <<log_file, writer, strict, exit_code, results, report, applied,
                   returned>>

\* SkipL3 that goes back to the L2 gate when L2 has not run
SkipL3_regate ==
    /\ pc = "L3"
    /\ ~(level \in L3Levels /\ ShouldRunL3(findings))
    /\ pc' = IF "L2" \in invoked THEN "L4" ELSE "L2"
    /\ UNCHANGED <<patterns_config, thresholds_config, env, level, skill, findings,
                   invoked, l2_attempts, l3_blocks, l3_index, l3_findings,
                   executed, temp_files, audit_log, raised, result>>
    /\ UNCHANGED <<log_file, writer, strict, exit_code, results, report, applied,
                   returned>>

SkipL3 ==
    /\ pc = "L3"
    /\ ~(level \in L3Levels /\ ShouldRunL3(findings))
    /\ pc' = "L4"
    /\ UNCHANGED <<patterns_config, thresholds_config, env, level, skill, findings,
                   invoked, l2_attempts, l3_blocks, l3_index, l3_findings,
                   executed, temp_files, audit_log, raised, result>>
    /\ UNCHANGED <<log_file, writer, strict, exit_code, results, report, applied,
                   returned>>

\* RunInSandbox that leaves the loop after a sandbox error
RunInSandbox_stop_on_error(run) ==
    /\ pc = "L3run"
    /\ executed' = executed + 1
    /\ temp_files' = (temp_files \cup {l3_index}) \ {l3_index}
    /\ l3_findings' = l3_findings \o SandboxFindings(run, l3_index)
    /\ l3_index' = l3_index + 1
    /\ IF l3_index + 1 = Len(l3_blocks) \/ run.kind = "error"
       THEN findings' = findings \o l3_findings' /\ pc' = "L4"
       ELSE findings' = findings /\ pc' = "L3run"
    /\ UNCHANGED <<patterns_config, thresholds_config, env, level, skill, invoked,
                   l2_attempts, l3_blocks, audit_log, raised, result>>
    /\ UNCHANGED <<log_file, writer, strict, exit_code, results, report, applied,
                   returned>>

\* one _run_in_sandbox call whose temporary file was written: the file is
\* created, subprocess.run does `run`, the finally clause unlinks the file
RunInSandbox(run) ==
    /\ pc = "L3run"
    /\ executed' = executed + 1
    /\ temp_files' = (temp_files \cup {l3_index}) \ {l3_index}
    /\ l3_findings' = l3_findings \o SandboxFindings(run, l3_index)
    /\ l3_index' = l3_index + 1
    /\ IF l3_index + 1 = Len(l3_blocks)
       THEN findings' = findings \o l3_findings' /\ pc' = "L4"
       ELSE findings' = findings /\ pc' = "L3run"
    /\ UNCHANGED <<patterns_config, thresholds_config, env, level, skill, invoked,
                   l2_attempts, l3_blocks, audit_log, raised, result>>
    /\ UNCHANGED <<log_file, writer, strict, exit_code, results, report, applied,
                   returned>>

\* one _run_in_sandbox call whose temporary file could not be made: the
\* with block is outside the try, so the OSError leaves scan_skill; when
\* f.write raised, the file NamedTemporaryFile(delete=False) made stays
MaterializeFails(written) ==
    /\ pc = "L3run"
    /\ temp_files' = IF written THEN temp_files \cup {l3_index} ELSE temp_files
    /\ raised' = "OSError"
    /\ pc' = "raised"
    /\ UNCHANGED <<patterns_config, thresholds_config, env, level, skill, findings,
                   invoked, l2_attempts, l3_blocks, l3_index, l3_findings,
                   executed, audit_log, result>>
    /\ UNCHANGED <<log_file, writer, strict, exit_code, results, report, applied,
                   returned>>

\* RunL4 where a failed write of the audit record leaves verify
RunL4_write_fatal(sig_exists, write_ok) ==
    /\ pc = "L4"
    /\ level \in L4Levels
    /\ LET fs == L4Verify(env, skill, sig_exists)
       IN  IF write_ok
           THEN /\ audit_log' = Append(audit_log,
                                       AuditEntry(skill, _calculate_hash(skill), fs))
                /\ findings' = findings \o fs
                /\ pc' = "aggregate"
                /\ raised' = raised
           ELSE /\ audit_log' = audit_log
                /\ findings' = findings
                /\ pc' = "raised"
                /\ raised' = "OSError"
    /\ invoked' = invoked \cup {"L4"}
    /\ UNCHANGED <<patterns_config, thresholds_config, env, level, skill,
                   l2_attempts, l3_blocks, l3_index, l3_findings, executed,
                   temp_files, result>>
    /\ UNCHANGED <<log_file, writer, strict, exit_code, results, report, applied,
                   returned>>

\* RunL4 whose audit record is computed from the running findings list
RunL4_audits_running_list(sig_exists, write_ok) ==
    /\ pc = "L4"
    /\ level \in L4Levels
    /\ findings' = findings \o L4Verify(env, skill, sig_exists)
    /\ audit_log' = IF write_ok
                    THEN Append(audit_log,
                                AuditEntry(skill, _calculate_hash(skill), findings'))
                    ELSE audit_log
    /\ invoked' = invoked \cup {"L4"}
    /\ pc' = "aggregate"
    /\ UNCHANGED <<patterns_config, thresholds_config, env, level, skill,
                   l2_attempts, l3_blocks, l3_index, l3_findings, executed,
                   temp_files, raised, result>>
    /\ UNCHANGED <<log_file, writer, strict, exit_code, results, report, applied,
                   returned>>

\* TrustVerifier.verify; write_ok: the append to the audit log succeeded
RunL4(sig_exists, write_ok) ==
    /\ pc = "L4"
    /\ level \in L4Levels
    /\ LET fs == L4Verify(env, skill, sig_exists)
       IN  /\ audit_log' = IF write_ok
                           THEN Append(audit_log,
                                       AuditEntry(skill, _calculate_hash(skill), fs))
                           ELSE audit_log
           /\ findings' = findings \o fs
    /\ invoked' = invoked \cup {"L4"}
    /\ pc' = "aggregate"
    /\ UNCHANGED <<patterns_config, thresholds_config, env, level, skill,
                   l2_attempts, l3_blocks, l3_index, l3_findings, executed,
                   temp_files, raised, result>>
    /\ UNCHANGED <<log_file, writer, strict, exit_code, results, report, applied,
                   returned>>

SkipL4 ==
    /\ pc = "L4"
    /\ level \notin L4Levels
    /\ pc' = "aggregate"
    /\ UNCHANGED <<patterns_config, thresholds_config, env, level, skill, findings,
                   invoked, l2_attempts, l3_blocks, l3_index, l3_findings,
                   executed, temp_files, audit_log, raised, result>>
    /\ UNCHANGED <<log_file, writer, strict, exit_code, results, report, applied,
                   returned>>

\* the risk score, the classification and the returned SkillResult
Aggregate ==
    /\ pc = "aggregate"
    /\ result' = <<ValidResult(thresholds_config, skill, findings)>>
    /\ pc' = "done"
    /\ UNCHANGED <<patterns_config, thresholds_config, env, level, skill, findings,
                   invoked, l2_attempts, l3_blocks, l3_index, l3_findings,
                   executed, temp_files, audit_log, raised>>
    /\ UNCHANGED <<log_file, writer, strict, exit_code, results, report, applied,
                   returned>>

(***************************************************************************)
(* models/report.py: the ScanReport of a scan command, and the end of the  *)
(* command in main.py.                                                     *)
(***************************************************************************)
\* sorted(..., key=lambda x: x.risk_score, reverse=True): stable, so results
\* of equal score keep their order
\* InsertByScore that keeps the list in ascending order of score
RECURSIVE InsertByScore_ascending(_, _)
InsertByScore_ascending(sorted, r) ==
    IF sorted = <<>> THEN <<r>>
    ELSE IF Head(sorted).risk_score <= r.risk_score
    THEN <<Head(sorted)>> \o InsertByScore_ascending(Tail(sorted), r)
    ELSE <<r>> \o sorted

RECURSIVE InsertByScore(_, _)
InsertByScore(sorted, r) ==
    IF sorted = <<>> THEN <<r>>
    ELSE IF Head(sorted).risk_score >= r.risk_score
    THEN <<Head(sorted)>> \o InsertByScore(Tail(sorted), r)
    ELSE <<r>> \o sorted

RECURSIVE SortByScoreDesc(_)
SortByScoreDesc(rs) ==
    IF rs = <<>> THEN <<>>
    ELSE InsertByScore(SortByScoreDesc(SubSeq(rs, 1, Len(rs) - 1)), rs[Len(rs)])

\* issue_counts[finding.name] = issue_counts.get(finding.name, 0) + 1 on a
\* dict, which keeps its keys in the order of their first insertion
CountIssue(issue_counts, name) ==
    IF \E i \in 1..Len(issue_counts) : issue_counts[i].name = name
    THEN [i \in 1..Len(issue_counts) |->
             IF issue_counts[i].name = name
             THEN [name |-> name, count |-> issue_counts[i].count + 1]
             ELSE issue_counts[i]]
    ELSE Append(issue_counts, [name |-> name, count |-> 1])

\* the inner loop of _get_common_issues over the findings of one result
RECURSIVE CountFindings(_, _)
CountFindings(issue_counts, fs) ==
    IF fs = <<>> THEN issue_counts
    ELSE CountFindings(CountIssue(issue_counts, Head(fs).name), Tail(fs))

\* the outer loop of _get_common_issues over the results
RECURSIVE CountResults(_, _)
CountResults(issue_counts, rs) ==
    IF rs = <<>> THEN issue_counts
    ELSE CountResults(CountFindings(issue_counts, Head(rs).findings), Tail(rs))

\* sorted(issue_counts.items(), key=lambda x: x[1], reverse=True): stable
RECURSIVE InsertByCount(_, _)
InsertByCount(sorted, e) ==
    IF sorted = <<>> THEN <<e>>
    ELSE IF Head(sorted).count >= e.count
    THEN <<Head(sorted)>> \o InsertByCount(Tail(sorted), e)
    ELSE <<e>> \o sorted

RECURSIVE SortByCountDesc(_)
SortByCountDesc(es) ==
    IF es = <<>> THEN <<>>
    ELSE InsertByCount(SortByCountDesc(SubSeq(es, 1, Len(es) - 1)), es[Len(es)])

\* the length of the issue table: sorted_issues[:10]
MaxIssues == 10

\* ScanReport._get_common_issues
_get_common_issues(rs) ==
    LET sorted_issues == SortByCountDesc(CountResults(<<>>, rs))
    IN  SubSeq(sorted_issues, 1, Min({MaxIssues, Len(sorted_issues)}))

\* ScanReport.from_results; a risk score of 0.6 is 6000 ten-thousandths.
\* (summary["pass_rate"], a formatted percentage, is left out.)
from_results(rs) ==
    LET count(S) == Cardinality({i \in 1..Len(rs) : rs[i].classification \in S})
        high_risk == SortByScoreDesc(SelectSeq(rs, LAMBDA r : r.risk_score >= 6000))
    IN  [total_skills |-> Len(rs),
         passed_count |-> count({"low"}),
         flagged_count |-> count({"medium", "high"}),
         blocked_count |-> count({"critical"}),
         results |-> rs,
         high_risk_skills |-> high_risk,
         summary |-> [high_risk_count |-> Len(high_risk),
                      most_common_issues |-> _get_common_issues(rs)]]

\* the end of the scan command for --skill: the one result is appended to
\* results, the report is built, and both exit tests raise typer.Exit(1)
\* when a skill is blocked; an exception that left scan_skill leaves the
\* command too (no report is built), and the interpreter exits with status 1
Exit(s) ==
    /\ pc \in {"done", "raised"}
    /\ exit_code = <<>>
    /\ strict' = s
    /\ IF pc = "raised"
       THEN /\ exit_code' = <<1>>
            /\ UNCHANGED <<results, report>>
       ELSE /\ results' = results \o result
            /\ report' = <<from_results(results')>>
            /\ exit_code' = IF s /\ report'[1].blocked_count > 0 THEN <<1>>
                            ELSE IF report'[1].blocked_count > 0 THEN <<1>>
                            ELSE <<0>>
    /\ UNCHANGED <<patterns_config, thresholds_config, env, pc, level, skill, findings,
                   invoked, l2_attempts, l3_blocks, l3_index, l3_findings,
                   executed, temp_files, audit_log, raised, result, log_file,
                   writer, applied, returned>>

Next ==
    \/ \E lvl \in LevelArgs :
          \/ \E content \in Contents : ScanSkill("ok", content, lvl)
          \/ \E file \in {"missing", "unreadable"} : ScanSkill(file, <<>>, lvl)
    \/ RunL1
    \/ SkipL1
    \/ \E failures \in 0..MaxAttempts : \E analysis \in Analyses :
          RunL2(failures, analysis)
    \/ SkipL2
    \/ RunL3
    \/ SkipL3
    \/ \E run \in Runs : RunInSandbox(run)
    \/ \E written \in BOOLEAN : MaterializeFails(written)
    \/ \E sig_exists \in (IF env.require_signature THEN BOOLEAN ELSE {FALSE}) :
          \E write_ok \in BOOLEAN : RunL4(sig_exists, write_ok)
    \/ SkipL4
    \/ Aggregate
    \/ \E s \in BOOLEAN : Exit(s)

Spec == Init /\ [][Next]_vars

(***************************************************************************)
(* levels/l4_trust.py: _log_audit calls of scans that share one audit log. *)
(* Each call opens its own file object in append mode, hands the whole     *)
(* line to it in one f.write, and leaves the with block, which flushes the *)
(* buffer in one write on the O_APPEND descriptor.  A line is kept as      *)
(* three pieces (opening brace, members, newline) tagged with the call.    *)
(***************************************************************************)
\* open(log_path, 'a'); a failure is swallowed by except Exception: pass
OpenLog(w, ok) ==
    /\ writer[w].pc = "entry"
    /\ writer' = [writer EXCEPT ![w].pc = IF ok THEN "write" ELSE "failed"]
    /\ UNCHANGED <<patterns_config, thresholds_config, env, pc, level, skill,
                   findings, invoked, l2_attempts, l3_blocks, l3_index,
                   l3_findings, executed, temp_files, audit_log, raised, result,
                   log_file, strict, exit_code, results, report, applied,
                   returned>>

\* f.write(json.dumps(audit_entry) + "\n"): the line goes to the buffer of
\* the file object
WriteLine(w) ==
    /\ writer[w].pc = "write"
    /\ writer' = [writer EXCEPT
                     ![w].pc = "close",
                     ![w].buffer = <<[call |-> w, text |-> "{"],
                                     [call |-> w, text |-> "members}"],
                                     [call |-> w, text |-> "\n"]>>]
    /\ UNCHANGED <<patterns_config, thresholds_config, env, pc, level, skill,
                   findings, invoked, l2_attempts, l3_blocks, l3_index,
                   l3_findings, executed, temp_files, audit_log, raised, result,
                   log_file, strict, exit_code, results, report, applied,
                   returned>>

\* CloseLog that writes the buffer one piece at a time
CloseLog_piecewise(w, ok) ==
    /\ writer[w].pc = "close"
    /\ IF ok
       THEN /\ log_file' = Append(log_file, Head(writer[w].buffer))
            /\ writer' = [writer EXCEPT
                             ![w].pc = IF Len(writer[w].buffer) = 1
                                       THEN "logged" ELSE "close",
                             ![w].buffer = Tail(writer[w].buffer)]
       ELSE /\ log_file' = log_file
            /\ writer' = [writer EXCEPT ![w].pc = "failed", ![w].buffer = <<>>]
    /\ UNCHANGED <<patterns_config, thresholds_config, env, pc, level, skill,
                   findings, invoked, l2_attempts, l3_blocks, l3_index,
                   l3_findings, executed, temp_files, audit_log, raised, result,
                   strict, exit_code, results, report, applied,
                   returned>>

\* leaving the with block: the buffer is flushed in one write at the end of
\* the file; a failure is swallowed by except Exception: pass
CloseLog(w, ok) ==
    /\ writer[w].pc = "close"
    /\ log_file' = IF ok THEN log_file \o writer[w].buffer ELSE log_file
    /\ writer' = [writer EXCEPT ![w].pc = IF ok THEN "logged" ELSE "failed",
                                ![w].buffer = <<>>]
    /\ UNCHANGED <<patterns_config, thresholds_config, env, pc, level, skill,
                   findings, invoked, l2_attempts, l3_blocks, l3_index,
                   l3_findings, executed, temp_files, audit_log, raised, result,
                   strict, exit_code, results, report, applied,
                   returned>>

NextLog ==
    \/ \E w \in 1..MaxWriters : \E ok \in BOOLEAN : OpenLog(w, ok)
    \/ \E w \in 1..MaxWriters : WriteLine(w)
    \/ \E w \in 1..MaxWriters : \E ok \in BOOLEAN : CloseLog(w, ok)

SpecLog == Init /\ [][NextLog]_vars

(***************************************************************************)
(* Properties of the escalation pipeline.                                  *)
(***************************************************************************)

\* C1: in a scan of a valid skill at level 'all', when scan_skill leaves the
\* L2 stage the running list is exactly the L1 findings, and L2 has been
\* invoked if and only if the declared risk is 'offensive' or one of those
\* findings has severity >= 0.3.
C1_L2GateIsRiskOrSeverity ==
    [][(pc = "L2" /\ level = "all") =>
          /\ findings = L1Analyze(patterns_config, skill)
          /\ ("L2" \in invoked') <=>
                \/ (S_risk \in DOMAIN skill.metadata /\ skill.metadata[S_risk] = S_offensive)
                \/ \E i \in 1..Len(findings) : findings[i].severity >= 30]_vars

\* a scan at level 'all' of a skill that is not offensive and whose highest
\* L1 finding is exactly 0.30 has invoked L2
C1_Witness ==
    /\ pc = "L3"
    /\ level = "all"
    /\ "L2" \in invoked
    /\ ~is_offensive(skill)
    /\ MaxSeverity(L1Analyze(patterns_config, skill), 0) = 30

\* C2: in a scan of a valid skill at level 'all', when scan_skill leaves the
\* L3 stage the running list is the L1 findings followed by L2 findings
\* only, and L3 has been invoked if and only if some finding of that list
\* has severity >= 0.6 (so never on an empty list).
C2_L3GateIsRunningMaximum ==
    [][(pc = "L3" /\ level = "all") =>
          LET l1 == L1Analyze(patterns_config, skill)
          IN  /\ Len(findings) >= Len(l1)
              /\ SubSeq(findings, 1, Len(l1)) = l1
              /\ \A i \in (Len(l1) + 1)..Len(findings) : findings[i].level = "L2"
              /\ ("L3" \in invoked') <=>
                    \E i \in 1..Len(findings) : findings[i].severity >= 60]_vars

\* L3 has been invoked at level 'all' although every L1 finding is below
\* 0.6: an L2 finding of severity >= 0.6 opened the gate
C2_Witness ==
    /\ level = "all"
    /\ "L3" \in invoked
    /\ MaxSeverity(L1Analyze(patterns_config, skill), 0) < 60
    /\ \E i \in 1..Len(findings) :
          findings[i].level = "L2" /\ findings[i].severity >= 60

\* C3: a failure raised inside a level analyzer never aborts the scan: no
\* exception leaves scan_skill.
C3_AnalyzerFaultContained == pc # "raised" /\ raised = None

C5_LoadFailureStopsScan ==
    (/\ pc # "idle"
     /\ \/ ~StartsWith(skill.content, Dashes)
        \/ Find(skill.content, NLDashes, 4) = 0) =>
        /\ pc = "done"
        /\ Len(result) = 1
        /\ ~result[1].is_valid
        /\ result[1].findings = <<>>
        /\ result[1].error \notin {None, ""}
        /\ invoked = {}
        /\ findings = <<>>
        /\ executed = 0
        /\ audit_log = <<>>

\* a manifest with content but no frontmatter block at its start was scanned
\* and the invalid result returned
C5_Witness ==
    /\ pc = "done"
    /\ skill.content # <<>>
    /\ ~StartsWith(skill.content, Dashes)
    /\ Len(result) = 1
    /\ ~result[1].is_valid

\* C6: the risk score of every returned SkillResult lies in [0, 1].
C6_RiskScoreInUnitInterval ==
    \A i \in 1..Len(result) : result[i].risk_score \in 0..10000

\* C7: every Finding an analyzer produced has a severity in [0.0, 1.0].
C7_SeverityInUnitInterval ==
    \A i \in 1..Len(findings) : findings[i].severity \in 0..100

\* C8: top_finding is the description of a finding of highest severity of
\* the result, and is None exactly when the result has no findings.
C8_TopFindingIsHighest ==
    \A k \in 1..Len(result) :
        LET r == result[k]
        IN  IF r.findings = <<>> THEN r.top_finding = None
            ELSE /\ r.top_finding # None
                 /\ \E i \in 1..Len(r.findings) :
                       /\ r.findings[i].description = r.top_finding
                       /\ \A j \in 1..Len(r.findings) :
                             r.findings[j].severity <= r.findings[i].severity

\* C9: the findings of every result are in order of non-increasing
\* severity, findings of equal severity in the order L1, L2, L3, L4.
C9_FindingsOrdered ==
    \A k \in 1..Len(result) :
        LET fs == result[k].findings
            rank == [l \in {"L1", "L2", "L3", "L4"} |->
                        CASE l = "L1" -> 1 [] l = "L2" -> 2 [] l = "L3" -> 3
                          [] OTHER -> 4]
        IN  \A i, j \in 1..Len(fs) :
                i < j =>
                    \/ fs[i].severity > fs[j].severity
                    \/ /\ fs[i].severity = fs[j].severity
                       /\ rank[fs[i].level] <= rank[fs[j].level]

\* C10: for a loaded skill whose frontmatter has a permissions line, the
\* permission score is the highest configured score among the declared
\* comma-separated tokens; without such a line it is the table value of the
\* declared risk (none 0.0, safe 0.2, critical 0.6, offensive 0.9, otherwise
\* 0.5).
C10_PermissionScoreOfDeclaredTokens ==
    (pc # "idle" /\ skill.is_valid) =>
        LET score == _get_permission_score(thresholds_config, skill)
            table == thresholds_config.permissions
        IN  IF S_permissions \in DOMAIN skill.metadata
            THEN LET parts == Split(skill.metadata[S_permissions], ",")
                     tokens == {Strip(parts[i]) : i \in 1..Len(parts)}
                 IN  score = Max({0} \cup {table[t].score :
                                              t \in tokens \cap DOMAIN table})
            ELSE LET risk == IF S_risk \in DOMAIN skill.metadata
                             THEN skill.metadata[S_risk] ELSE S_unknown
                 IN  score = CASE risk = S_none -> 0
                                [] risk = S_safe -> 20
                                [] risk = S_critical -> 60
                                [] risk = S_offensive -> 90
                                [] OTHER -> 50

(***************************************************************************)
(* Properties of the aggregation.                                          *)
(***************************************************************************)

\* C11: the risk score of a valid result is w1 * (the maximum severity of
\* its findings, 0 when there are none) + w2 * permissionScore + w3 *
\* sourceTrustScore + w4 * 0, clamped to [0, 1].
C11_RiskScoreIsClampedWeightedSum ==
    \A k \in 1..Len(result) :
        result[k].is_valid =>
            LET fs == result[k].findings
                w == thresholds_config.weights
                maxSeverity ==
                    IF fs = <<>> THEN 0
                    ELSE CHOOSE m \in {fs[i].severity : i \in 1..Len(fs)} :
                             \A i \in 1..Len(fs) : fs[i].severity <= m
                sum == w.pattern_severity * maxSeverity
                       + w.permission_scope
                             * _get_permission_score(thresholds_config, skill)
                       + w.source_trust
                             * _get_source_trust_score(thresholds_config, skill)
                       + w.community_reports * 0
            IN  result[k].risk_score =
                    IF sum > 10000 THEN 10000 ELSE IF sum < 0 THEN 0 ELSE sum

\* C12: with the configured minima ordered critical >= high >= medium, the
\* classification of every result is the one bucket whose range holds the
\* score: critical from critical.min up, high from high.min up to
\* critical.min, medium from medium.min up to high.min, low below medium.min.
C12_ClassificationIsHighestBucketMet ==
    \A k \in 1..Len(result) :
        LET score == result[k].risk_score
            class == result[k].classification
            critical == thresholds_config.thresholds.critical.min * 100
            high == thresholds_config.thresholds.high.min * 100
            medium == thresholds_config.thresholds.medium.min * 100
        IN  /\ critical >= high /\ high >= medium
            /\ class \in {"low", "medium", "high", "critical"}
            /\ class = "critical" <=> score >= critical
            /\ class = "high" <=> (score >= high /\ score < critical)
            /\ class = "medium" <=> (score >= medium /\ score < high)
            /\ class = "low" <=> score < medium

\* a scan returned a result classified high
C12_Witness ==
    /\ pc = "done"
    /\ Len(result) = 1
    /\ result[1].is_valid
    /\ result[1].classification = "high"

\* C13 as stated: the risk score is a function of the finding list and the
\* configuration alone.  Any other manifest whose scan at level 'all' by the
\* same scanner yields the finding list of this result (its L1 findings
\* followed by its L4 findings) gets the score of this result.
C13_ScoreFunctionOfFindingsAndConfig ==
    \A k \in 1..Len(result) :
        (result[k].is_valid /\ level = "all") =>
            \A c \in Contents :
                LET other == from_path(FolderName, "ok", c)
                IN  (/\ other.is_valid
                     /\ L1Analyze(patterns_config, other)
                            \o L4Verify(env, other, FALSE) = result[k].findings) =>
                        _calculate_risk_score(thresholds_config, other,
                                              result[k].findings)
                            = result[k].risk_score

\* the skills Skill.from_path loads from the readable manifests
LoadedSkills == [c \in Contents |-> from_path(FolderName, "ok", c)]

\* C13 as amended: the risk score and the classification are a function of
\* the finding list, the configuration and the declared risk, permissions
\* and trust_level of the skill.  Aggregating the findings of this result
\* for any manifest that declares the same three values gives the score and
\* the classification of this result.
C13_ScoreFunctionOfFindingsMetadataConfig ==
    \A k \in 1..Len(result) :
        result[k].is_valid =>
            \A c \in Contents :
                LET other == LoadedSkills[c]
                    score == _calculate_risk_score(thresholds_config, other,
                                                   result[k].findings)
                IN  (/\ other.is_valid
                     /\ \A key \in {S_risk, S_permissions, S_trust_level} :
                           Get(other.metadata, key, <<"\n">>)
                               = Get(skill.metadata, key, <<"\n">>)) =>
                        /\ score = result[k].risk_score
                        /\ _classify_risk(thresholds_config, score)
                               = result[k].classification

\* a scan returned a valid result, and another manifest declares the same
\* risk, permissions and trust_level with a different source
C13_Witness ==
    /\ pc = "done"
    /\ Len(result) = 1
    /\ result[1].is_valid
    /\ \E c \in Contents :
          LET other == from_path(FolderName, "ok", c)
          IN  /\ other.is_valid
              /\ source(other) # source(skill)
              /\ \A key \in {S_risk, S_permissions, S_trust_level} :
                    Get(other.metadata, key, <<"\n">>)
                        = Get(skill.metadata, key, <<"\n">>)

(***************************************************************************)
(* Properties of the order of the levels.                                  *)
(***************************************************************************)

\* C14: within one scan the stages are passed in the order L1, L2, L3, L4,
\* aggregation, never backwards; at each stage only the earlier analyzers
\* have been invoked; an analyzer is invoked only at its own stage, which is
\* then left for a later one (so each runs at most once and no gate is
\* evaluated again); findings are only appended, and only findings of the
\* stage's own level; a result is returned only from the aggregation stage,
\* or at once for a skill that failed to load.
C14_LevelsRunInOrderOnce ==
    [][LET rank == [p \in {"idle", "L1", "L2", "L3", "L3run", "L4", "aggregate",
                           "done", "raised"} |->
                       CASE p = "idle" -> 0 [] p = "L1" -> 1 [] p = "L2" -> 2
                         [] p = "L3" -> 3 [] p = "L3run" -> 4 [] p = "L4" -> 5
                         [] p = "aggregate" -> 6 [] OTHER -> 7]
           stage == [a \in {"L1", "L2", "L3", "L4"} |->
                       CASE a = "L1" -> 1 [] a = "L2" -> 2 [] a = "L3" -> 3
                         [] OTHER -> 5]
       IN  /\ rank[pc'] >= rank[pc]
           /\ invoked \subseteq invoked'
           /\ invoked' \subseteq {"L1", "L2", "L3", "L4"}
           /\ \A a \in invoked' : stage[a] < rank[pc']
           /\ \A a \in invoked' \ invoked :
                 rank[pc] = stage[a] /\ rank[pc'] > rank[pc]
           /\ Len(findings') >= Len(findings)
           /\ SubSeq(findings', 1, Len(findings)) = findings
           /\ \A i \in (Len(findings) + 1)..Len(findings') :
                 /\ findings'[i].level \in invoked'
                 /\ stage[findings'[i].level] \in {rank[pc], rank[pc] - 1}
           /\ result' # result =>
                 /\ result = <<>>
                 /\ pc' = "done"
                 /\ \/ pc = "aggregate"
                    \/ pc = "idle" /\ ~result'[1].is_valid]_vars

\* a scan has returned after invoking all four analyzers and executing two
\* fragments
C14_Witness ==
    /\ pc = "done"
    /\ invoked = {"L1", "L2", "L3", "L4"}
    /\ executed = 2
    /\ Len(result) = 1

(***************************************************************************)
(* Properties of the isolation executor.  Every state is outside a call of *)
(* _run_in_sandbox: a call is one step.                                    *)
(***************************************************************************)

\* C15: whenever _run_in_sandbox has returned or raised, the temporary
\* artifact it made no longer exists (so no artifact exists between calls,
\* and never more than one).
C15_TempArtifactAlwaysRemoved == temp_files = {}

C18_DisabledSandboxExecutesNothing ==
    [][~env.sandbox_enabled =>
          /\ executed' = 0
          /\ temp_files' = {}
          /\ pc' # "L3run"
          /\ (pc = "L3" /\ "L3" \in invoked') =>
                /\ Len(findings') = Len(findings) + 1
                /\ SubSeq(findings', 1, Len(findings)) = findings
                /\ findings'[Len(findings')].level = "L3"
                /\ findings'[Len(findings')].severity = 0
                /\ pc' = "L4"]_vars

\* the executor was invoked with the sandbox disabled on a skill that has
\* fragments it would select
C18_Witness ==
    /\ ~env.sandbox_enabled
    /\ "L3" \in invoked
    /\ _extract_testable_code(skill) # <<>>
    /\ pc = "L4"
    /\ executed = 0

\* C19: the executor runs at most 5 fragments per skill.  Whenever it has
\* selected fragments, the selection is the first five, in document order,
\* of the fenced blocks whose lowercased language tag is python, py, bash,
\* sh or shell, that have a line that is neither blank nor a comment, and
\* whose stripped text is longer than 10 characters; the fragment it runs
\* next is the next one of that selection, and no other block is executed.
C19_AtMostFiveEligibleFragments ==
    LET blocks == skill.code_blocks
        eligible == {i \in 1..Len(blocks) :
            /\ Lower(blocks[i].language) \in
                  {<<"p", "y", "t", "h", "o", "n">>, <<"p", "y">>,
                   <<"b", "a", "s", "h">>, <<"s", "h">>,
                   <<"s", "h", "e", "l", "l">>}
            /\ LET ls == Split(Strip(blocks[i].code), "\n")
               IN  \E k \in 1..Len(ls) :
                      Strip(ls[k]) # <<>> /\ Head(Strip(ls[k])) # "#"
            /\ Len(Strip(blocks[i].code)) > 10}
        nth(k) == CHOOSE i \in eligible :
                      Cardinality({j \in eligible : j < i}) = k - 1
        count == IF Cardinality(eligible) < 5 THEN Cardinality(eligible) ELSE 5
    IN  /\ executed <= 5
        /\ executed <= Len(l3_blocks)
        /\ (pc = "L3run" \/ executed > 0) =>
              /\ Len(l3_blocks) = count
              /\ \A k \in 1..count :
                    /\ l3_blocks[k].code = blocks[nth(k)].code
                    /\ l3_blocks[k].language = Lower(blocks[nth(k)].language)
              /\ executed = l3_index
              /\ pc \notin {"L3run", "raised"} => executed = count

\* the executor has run five fragments of a skill that has more than five
\* eligible blocks, after blocks that are not eligible, and the scan has
\* moved on to L4
C19_Witness ==
    /\ pc = "L4"
    /\ executed = 5
    /\ Len(Testable(skill.code_blocks)) > 5
    /\ Len(skill.code_blocks) > Len(Testable(skill.code_blocks))
    /\ Lower(skill.code_blocks[1].language) \notin {S_python, S_py, S_bash, S_sh, S_shell}

C22_OracleRetriedAtMostThrice ==
    [][/\ l2_attempts' <= 3
       /\ (pc = "L2" /\ "L2" \in invoked' /\ env.api_url # "" /\ env.api_key # "") =>
             LET new == SubSeq(findings', Len(findings) + 1, Len(findings'))
                 failed == \E i \in 1..Len(new) : new[i].name = "analysis_error"
             IN  /\ l2_attempts' \in 1..3
                 /\ pc' = "L3"
                 /\ raised' = None
                 /\ SubSeq(findings', 1, Len(findings)) = findings
                 /\ failed =>
                       /\ l2_attempts' = 3
                       /\ Len(new) = 1
                       /\ new[1].level = "L2"
                       /\ new[1].severity = 10
                 /\ l2_attempts' < 3 => ~failed
       /\ ~(pc = "L2" /\ "L2" \in invoked') => l2_attempts' = l2_attempts
       /\ (pc' = "done" /\ level' = "all" /\ l2_attempts' > 0) =>
             "L4" \in invoked']_vars

\* every request of an L2 analysis failed, and the scan at level 'all' went on
\* through L4 and returned a result that carries the analysis_error finding
C22_Witness ==
    /\ pc = "done"
    /\ level = "all"
    /\ l2_attempts = 3
    /\ "L4" \in invoked
    /\ \E i \in 1..Len(result[1].findings) :
          /\ result[1].findings[i].name = "analysis_error"
          /\ result[1].findings[i].severity = 10

\* C23: when the oracle's URL or its key is empty, an L2 analysis makes no
\* request, appends exactly one Finding (gemini_not_configured, level L2,
\* severity 0.0) and leaves scan_skill at the L3 gate with nothing raised;
\* no request is ever made under that configuration, and whenever L3 is then
\* invoked, a finding that is not from L2 has severity >= 0.6.
C23_UnconfiguredOracleInformsOnly ==
    [][(env.api_url = "" \/ env.api_key = "") =>
          /\ l2_attempts' = 0
          /\ (pc = "L2" /\ "L2" \in invoked') =>
                /\ Len(findings') = Len(findings) + 1
                /\ SubSeq(findings', 1, Len(findings)) = findings
                /\ findings'[Len(findings')].level = "L2"
                /\ findings'[Len(findings')].name = "gemini_not_configured"
                /\ findings'[Len(findings')].severity = 0
                /\ pc' = "L3"
                /\ raised' = None
          /\ (pc = "L3" /\ "L3" \in invoked') =>
                \E i \in 1..Len(findings) :
                    findings[i].level # "L2" /\ findings[i].severity >= 60]_vars

\* with the URL empty and the key set, a scan at level 'all' ran L2, did not
\* open the L3 gate, ran L4 and returned
C23_Witness ==
    /\ env.api_url = ""
    /\ env.api_key # ""
    /\ pc = "done"
    /\ level = "all"
    /\ invoked = {"L1", "L2", "L4"}
    /\ l2_attempts = 0
    /\ \E i \in 1..Len(result[1].findings) :
          result[1].findings[i].name = "gemini_not_configured"

\* C24: when L1 has run, for every rule of the buckets critical, high,
\* medium and low the findings named after the rule are: none, if an
\* allowlist entry names the rule and its context holds ('offensive': the
\* declared risk is offensive and, if the entry requires it, the content
\* carries the disclaimer; 'defensive': the declared risk is safe or
\* critical); otherwise one for every place of the content where the rule's
\* text occurs, letter case ignored, each of level L1 with the rule's
\* severity and the line of that place.  Findings of rules of equal severity
\* are in bucket order.
C24_RuleMatchesBecomeFindings ==
    (pc = "L2" /\ "L1" \in invoked) =>
        LET table == patterns_config.patterns
            order == <<"critical", "high", "medium", "low">>
            risk == IF S_risk \in DOMAIN skill.metadata
                    THEN skill.metadata[S_risk] ELSE S_unknown
            disclaimer == \E i \in 1..Len(skill.content) :
                              StartsAt(Upper(skill.content), DISCLAIMER, i)
            allowed(r) ==
                \E e \in 1..Len(patterns_config.allowlist) :
                    LET entry == patterns_config.allowlist[e]
                    IN  /\ r.name \in entry.patterns
                        /\ \/ /\ entry.context = "offensive"
                              /\ risk = S_offensive
                              /\ entry.requires_disclaimer => disclaimer
                           \/ /\ entry.context = "defensive"
                              /\ risk \in {S_safe, S_critical}
            places(r) == {i \in 1..Len(skill.content) :
                             StartsAt(Lower(skill.content), Lower(r.pattern), i)}
            named(r) == {j \in 1..Len(findings) : findings[j].name = r.name}
            bucket(j) == CHOOSE b \in 1..4 :
                             \E k \in 1..Len(table[order[b]]) :
                                 table[order[b]][k].name = findings[j].name
        IN  /\ \A b \in 1..4 : \A k \in 1..Len(table[order[b]]) :
                  LET r == table[order[b]][k]
                  IN  /\ Cardinality(named(r)) =
                            IF allowed(r) THEN 0 ELSE Cardinality(places(r))
                      /\ \A j \in named(r) :
                            /\ findings[j].level = "L1"
                            /\ findings[j].severity = r.severity
                      /\ ~allowed(r) =>
                            {findings[j].line_number : j \in named(r)} =
                            {Cardinality({n \in 1..(i - 1) : skill.content[n] = "\n"}) + 1 :
                                i \in places(r)}
            /\ \A i, j \in 1..Len(findings) :
                  (/\ i < j
                   /\ findings[i].line_number > 0
                   /\ findings[j].line_number > 0
                   /\ findings[i].severity = findings[j].severity) =>
                      bucket(i) <= bucket(j)

\* L1 has run on a content in which the rule of the critical bucket matches
\* on two lines and the equally severe rule of the low bucket on one: three
\* findings of severity 0.95, those of the critical rule first
C24_Witness ==
    /\ pc = "L2"
    /\ "L1" \in invoked
    /\ Len(findings) >= 3
    /\ findings[1].name = "eval_exec" /\ findings[1].line_number = 8
    /\ findings[2].name = "eval_exec" /\ findings[2].line_number = 9
    /\ findings[3].name = "todo_marker" /\ findings[3].severity = 95

\* C25: a run of StaticAnalyzer.analyze changes nothing but the running
\* list, to which it adds its findings: the skill, the rule table, the
\* files and the audit log are as before, so a second run has the same
\* inputs and returns the same list.  The list is in order of non-increasing
\* severity, and findings of equal severity are in discovery order: metadata
\* checks, then bucket rule matches, then code-fragment heuristics, then the
\* disclaimer check.
C25_PatternEngineSortedAndPure ==
    [][(pc = "L1" /\ "L1" \in invoked') =>
          LET stage(f) ==
                  CASE f.name \in {"missing_name", "missing_description",
                                   "name_mismatch", "missing_risk",
                                   "invalid_risk", "missing_source"} -> 1
                    [] f.name \in {"destructive_shell", "dynamic_import"} -> 3
                    [] f.name = "missing_disclaimer" -> 4
                    [] OTHER -> 2
          IN  /\ UNCHANGED <<patterns_config, thresholds_config, env, level,
                             skill, l2_attempts, l3_blocks, l3_index,
                             l3_findings, executed, temp_files, audit_log,
                             raised, result, log_file>>
              /\ findings = <<>>
              /\ \A i \in 1..Len(findings') : findings'[i].level = "L1"
              /\ \A i, j \in 1..Len(findings') :
                    i < j =>
                       \/ findings'[i].severity > findings'[j].severity
                       \/ /\ findings'[i].severity = findings'[j].severity
                          /\ stage(findings'[i]) <= stage(findings'[j])
                          /\ (stage(findings'[i]) = 2 /\ stage(findings'[j]) = 2
                              /\ findings'[i].name = findings'[j].name) =>
                                findings'[i].line_number <= findings'[j].line_number
              /\ findings' = L1Analyze(patterns_config', skill')]_vars

\* L1 has run on a content where a rule match and a code-fragment heuristic
\* have the same severity 0.50: the rule match comes first, after the more
\* severe findings
C25_Witness ==
    /\ pc = "L2"
    /\ "L1" \in invoked
    /\ \E i \in 1..(Len(findings) - 1) :
          /\ i > 1
          /\ findings[i].name = "base64_blob"
          /\ findings[i + 1].name = "dynamic_import"
          /\ findings[i].severity = 50
          /\ findings[i + 1].severity = 50

\* C26: when L1 has run, its findings hold a missing_disclaimer finding if
\* and only if the declared risk is 'offensive' and the phrase AUTHORIZED USE
\* ONLY occurs nowhere in the content, letter case ignored; there is then
\* exactly one, of level L1 and severity 0.90.
C26_MissingDisclaimerIffOffensiveWithoutPhrase ==
    (pc = "L2" /\ "L1" \in invoked) =>
        LET flagged == {i \in 1..Len(findings) :
                           findings[i].name = "missing_disclaimer"}
            offensive == /\ S_risk \in DOMAIN skill.metadata
                         /\ skill.metadata[S_risk] = S_offensive
            phrase == \E i \in 1..Len(skill.content) :
                          \A k \in 1..Len(DISCLAIMER) :
                              /\ i + k - 1 <= Len(skill.content)
                              /\ LowerChar(skill.content[i + k - 1]) =
                                    LowerChar(DISCLAIMER[k])
        IN  /\ flagged # {} <=> (offensive /\ ~phrase)
            /\ Cardinality(flagged) <= 1
            /\ \A i \in flagged :
                  findings[i].level = "L1" /\ findings[i].severity = 90

\* L1 has run on an offensive skill whose content has no disclaimer: the
\* missing_disclaimer finding of severity 0.90 is in its findings
C26_Witness ==
    /\ pc = "L2"
    /\ "L1" \in invoked
    /\ is_offensive(skill)
    /\ ~Contains(Lower(skill.content), Lower(DISCLAIMER))
    /\ \E i \in 1..Len(findings) :
          findings[i].name = "missing_disclaimer" /\ findings[i].severity = 90

\* C27: when L1 has run, its findings hold exactly one finding for each
\* metadata violation and none otherwise, each of level L1 with its fixed
\* severity: missing_name 0.30 (no name), missing_description 0.30 (no
\* description), name_mismatch 0.20 (the name is not the folder name, an
\* absent name included), missing_risk 0.35 (no risk label), invalid_risk
\* 0.40 (a risk label that is not none, safe, critical or offensive; never
\* with missing_risk), missing_source 0.15 (no source).  A manifest with the
\* folder's name, a description, a valid risk label and a source has none of
\* them.
C27_OneFindingPerMetadataViolation ==
    (pc = "L2" /\ "L1" \in invoked) =>
        LET md == skill.metadata
            count(n) == Cardinality({i \in 1..Len(findings) : findings[i].name = n})
            emitted(n, violated, sev) ==
                /\ count(n) = IF violated THEN 1 ELSE 0
                /\ \A i \in 1..Len(findings) :
                      findings[i].name = n =>
                          findings[i].severity = sev /\ findings[i].level = "L1"
            valid_risk == {<<"n", "o", "n", "e">>, <<"s", "a", "f", "e">>,
                           <<"c", "r", "i", "t", "i", "c", "a", "l">>,
                           <<"o", "f", "f", "e", "n", "s", "i", "v", "e">>}
        IN  /\ emitted("missing_name", S_name \notin DOMAIN md, 30)
            /\ emitted("missing_description", S_description \notin DOMAIN md, 30)
            /\ emitted("name_mismatch",
                       S_name \notin DOMAIN md \/ md[S_name] # skill.path_name, 20)
            /\ emitted("missing_risk", S_risk \notin DOMAIN md, 35)
            /\ emitted("invalid_risk",
                       S_risk \in DOMAIN md /\ md[S_risk] \notin valid_risk, 40)
            /\ emitted("missing_source", S_source \notin DOMAIN md, 15)
            /\ count("missing_risk") + count("invalid_risk") <= 1

\* L1 has run on a manifest whose name is present but is not the folder
\* name and that has no risk label: name_mismatch 0.20 and missing_risk 0.35
\* are in the findings, missing_name and invalid_risk are not
C27_Witness ==
    /\ pc = "L2"
    /\ "L1" \in invoked
    /\ S_name \in DOMAIN skill.metadata
    /\ skill.metadata[S_name] # skill.path_name
    /\ S_risk \notin DOMAIN skill.metadata
    /\ \E i, j \in 1..Len(findings) :
          /\ findings[i].name = "missing_risk" /\ findings[i].severity = 35
          /\ findings[j].name = "name_mismatch" /\ findings[j].severity = 20
    /\ \A i \in 1..Len(findings) :
          findings[i].name \notin {"missing_name", "invalid_risk"}

\* C28: when the trust ledger has run, its source finding is unknown_source
\* 0.40 for a source that is absent, empty or 'unknown', self_attributed 0.10
\* for 'self', and for a source that starts with http it is trusted_source
\* 0.0 if and only if what follows the scheme is one of the fixed trusted
\* repository domains or a path below it, and external_source 0.20
\* otherwise: a URL hosted elsewhere is never reported as trusted.
C28_SourceTrustedOnlyOnTrustedDomain ==
    (pc = "aggregate" /\ "L4" \in invoked) =>
        LET src == IF S_source \in DOMAIN skill.metadata
                   THEN skill.metadata[S_source] ELSE S_unknown
            has(n, sev) == \E i \in 1..Len(findings) :
                               /\ findings[i].level = "L4"
                               /\ findings[i].name = n
                               /\ findings[i].severity = sev
            named(n) == \E i \in 1..Len(findings) : findings[i].name = n
            after_scheme ==
                IF StartsWith(src, <<"h", "t", "t", "p", "s", ":", "/", "/">>)
                THEN SubSeq(src, 9, Len(src))
                ELSE IF StartsWith(src, <<"h", "t", "t", "p", ":", "/", "/">>)
                THEN SubSeq(src, 8, Len(src))
                ELSE <<>>
            on_trusted_domain ==
                \E k \in 1..Len(trusted_domains) :
                    /\ StartsWith(after_scheme, trusted_domains[k])
                    /\ \/ Len(after_scheme) = Len(trusted_domains[k])
                       \/ after_scheme[Len(trusted_domains[k]) + 1] = "/"
        IN  /\ (src = S_unknown \/ src = <<>>) => has("unknown_source", 40)
            /\ src = S_self => has("self_attributed", 10)
            /\ StartsWith(src, S_http) =>
                  /\ named("trusted_source") <=> on_trusted_domain
                  /\ named("external_source") <=> ~on_trusted_domain
                  /\ on_trusted_domain => has("trusted_source", 0)
                  /\ ~on_trusted_domain => has("external_source", 20)

\* C29: when the trust ledger has run, the findings hold exactly one finding
\* of the author check.  For an author of the registry it is trusted_author
\* 0.0 when the entry is verified and its reputation is >= 0.8, else
\* known_author 0.10 when the reputation is >= 0.5, else low_reputation
\* 0.40; for any other author, a missing one included, it follows the
\* trust_level tag: official_skill 0.0, verified_skill 0.05, and
\* community_skill 0.15 for any other tag or none.
C29_OneAuthorFindingByRegistryThenTag ==
    (pc = "aggregate" /\ "L4" \in invoked) =>
        LET md == skill.metadata
            registry == env.trusted_authors
            of_author == {i \in 1..Len(findings) :
                findings[i].name \in {"trusted_author", "known_author",
                                      "low_reputation", "official_skill",
                                      "verified_skill", "community_skill"}}
            registered == S_author \in DOMAIN md /\ md[S_author] \in DOMAIN registry
            tag == IF S_trust_level \in DOMAIN md THEN md[S_trust_level] ELSE <<>>
            expected ==
                IF registered
                THEN LET entry == registry[md[S_author]]
                     IN  IF entry.verified /\ entry.reputation >= 80
                         THEN <<"trusted_author", 0>>
                         ELSE IF entry.reputation >= 50
                         THEN <<"known_author", 10>>
                         ELSE <<"low_reputation", 40>>
                ELSE IF tag = <<"o", "f", "f", "i", "c", "i", "a", "l">>
                THEN <<"official_skill", 0>>
                ELSE IF tag = <<"v", "e", "r", "i", "f", "i", "e", "d">>
                THEN <<"verified_skill", 5>>
                ELSE <<"community_skill", 15>>
        IN  /\ Cardinality(of_author) = 1
            /\ \A i \in of_author :
                  /\ findings[i].level = "L4"
                  /\ findings[i].name = expected[1]
                  /\ findings[i].severity = expected[2]
                  /\ i = Len(findings)

\* the trust ledger has run on a skill whose author is in the registry with
\* a reputation below 0.5 and whose trust_level tag says verified: the
\* finding is low_reputation 0.40, not the one of the tag
C29_Witness ==
    /\ pc = "aggregate"
    /\ "L4" \in invoked
    /\ S_author \in DOMAIN skill.metadata
    /\ skill.metadata[S_author] \in DOMAIN env.trusted_authors
    /\ env.trusted_authors[skill.metadata[S_author]].reputation < 50
    /\ Get(skill.metadata, S_trust_level, <<>>) = S_verified
    /\ findings[Len(findings)].name = "low_reputation"
    /\ findings[Len(findings)].severity = 40

\* C30: the scan command exits with a non-zero status if and only if a
\* scanned skill is classified critical or, under --strict, a scanned skill
\* is classified medium or high; in particular never because an analyzer
\* failed, and not for a skill classified high without --strict.
C30_ExitStatusFollowsClassification ==
    exit_code # <<>> =>
        LET critical == \E i \in 1..Len(result) : result[i].classification = "critical"
            flagged == \E i \in 1..Len(result) :
                           result[i].classification \in {"medium", "high"}
        IN  exit_code # <<0>> <=> (critical \/ (strict /\ flagged))

(***************************************************************************)
(* main.py: the scan command on a directory (--skills-dir) at --level L1.  *)
(* Each target is scanned in turn and its result appended to results;      *)
(* then the report is built and the exit status decided.                   *)
(***************************************************************************)
\* the number of skill directories under --skills-dir
MaxTargets == 3

\* the directories: the state of the SKILL.md file and its content
DirTargets ==
    {<<"ok", c>> : c \in {K_clean, K_offensive, K_eval, K_shell, K_loud, K_nofm}}
    \cup {<<"missing", <<>> >>}

\* scanner.scan_skill(target, level="L1"): Skill.from_path, the static
\* analyzer alone (the gates of L2 and L3 and the trust ledger are behind
\* their level tests), the score and the classification
ScanL1(patterns, thresholds, file, content) ==
    LET s == from_path(FolderName, file, content)
    IN  IF s.is_valid
        THEN ValidResult(thresholds, s, L1Analyze(patterns, s))
        ELSE InvalidResult(FolderName)

\* the results of ScanL1 for the deployments and the directories
L1Results ==
    [d \in {<<x.patterns, x.thresholds>> : x \in Deployments} |->
        [t \in DirTargets |-> ScanL1(d[1], d[2], t[1], t[2])]]

\* one turn of the loop over targets
ScanTarget(target) ==
    /\ pc = "idle"
    /\ report = <<>>
    /\ Len(results) < MaxTargets
    /\ level' = "L1"
    /\ results' = Append(results, L1Results[<<patterns_config, thresholds_config>>][target])
    /\ UNCHANGED <<patterns_config, thresholds_config, env, pc, skill, findings,
                   invoked, l2_attempts, l3_blocks, l3_index, l3_findings,
                   executed, temp_files, audit_log, raised, result, log_file,
                   writer, strict, exit_code, report, applied, returned>>

\* after the loop: ScanReport.from_results and both exit tests
Report(s) ==
    /\ pc = "idle"
    /\ report = <<>>
    /\ strict' = s
    /\ report' = <<from_results(results)>>
    /\ exit_code' = IF s /\ report'[1].blocked_count > 0 THEN <<1>>
                    ELSE IF report'[1].blocked_count > 0 THEN <<1>>
                    ELSE <<0>>
    /\ UNCHANGED <<patterns_config, thresholds_config, env, pc, level, skill,
                   findings, invoked, l2_attempts, l3_blocks, l3_index,
                   l3_findings, executed, temp_files, audit_log, raised, result,
                   log_file, writer, results, applied, returned>>

NextDir ==
    \/ \E target \in DirTargets : ScanTarget(target)
    \/ \E s \in BOOLEAN : Report(s)

SpecDir == Init /\ [][NextDir]_vars

(***************************************************************************)
(* Methods applied on their own: each action is one call of a method that  *)
(* reads nothing but its arguments (and the configuration of its object),  *)
(* on arguments drawn from a bounded set.                                  *)
(***************************************************************************)
\* what is left unchanged by a call of such a method
ScanUnchanged ==
    UNCHANGED <<patterns_config, thresholds_config, env, pc, level, skill,
                findings, invoked, l2_attempts, l3_blocks, l3_index, l3_findings,
                executed, temp_files, audit_log, raised, result, log_file,
                writer, strict, exit_code, results, report>>

\* the texts a sandboxed fragment writes to its standard error: a shell
\* prefix and one line for each of the chosen messages, taken from the
\* lines the analyzer looks for
StderrLines ==
    <<P_permission_denied, P_network_unreachable, P_connection_refused, P_curl,
      P_wget, P_socket_error, P_subprocess>>

RECURSIVE StderrText(_, _)
StderrText(chosen, k) ==
    IF k > Len(StderrLines) THEN <<>>
    ELSE (IF k \in chosen THEN <<"s", "h", ":", " ">> \o StderrLines[k] \o <<"\n">>
          ELSE <<>>)
         \o StderrText(chosen, k + 1)

\* the exit codes of a completed fragment
ReturnCodes == {0, 1, 2, 137, -9}

\* DynamicAnalyzer._analyze_execution_result on the CompletedProcess of a
\* fragment; in_capitals: the messages are written in capitals
AnalyzeExecutionResult(chosen, in_capitals, returncode, block_index) ==
    /\ applied.method = "none"
    /\ LET text == StderrText(chosen, 1)
           stderr == IF in_capitals THEN Upper(text) ELSE text
       IN  /\ applied' = [method |-> "_analyze_execution_result",
                          args |-> [stderr |-> stderr, returncode |-> returncode,
                                    block_index |-> block_index]]
           /\ returned' = _analyze_execution_result(stderr, returncode, block_index)
    /\ ScanUnchanged

\* an evidence text of n characters, the last of them marked
Evidence(n) == [i \in 1..n |-> IF i = n THEN "!" ELSE "e"]

\* replies of the semantic oracle, as parsed by _parse_openai_response:
\* those of Analyses, an error reply that also carries findings, replies
\* whose findings quote evidence of 201, 200 and 3 characters, and replies
\* without findings
OracleReplies ==
    Analyses \cup
    { [error |-> "Failed to parse response",
       findings |-> <<[type |-> "malicious_code", severity |-> 90]>>,
       risk_score |-> 90],
      [findings |-> <<[type |-> "data_exfiltration", severity |-> 80,
                       evidence |-> Evidence(MaxSnippet + 1)],
                      [type |-> "data_exfiltration", description |-> "posts the keys",
                       evidence |-> Evidence(MaxSnippet)],
                      [description |-> "odd", severity |-> 0, evidence |-> Evidence(3)]>>,
       risk_score |-> 59, summary |-> "Below the line"],
      [risk_score |-> 60],
      [summary |-> "Nothing found"] }

\* SemanticAnalyzer._convert_to_findings on a reply
ConvertToFindings(analysis) ==
    /\ applied.method = "none"
    /\ applied' = [method |-> "_convert_to_findings", args |-> [analysis |-> analysis]]
    /\ returned' = _convert_to_findings(analysis)
    /\ ScanUnchanged

\* the minima a thresholds.yaml may give to a classification, in hundredths
Minima == {0, 30, 60, 80}

\* thresholds.yaml tables with every choice of the three minima, in order
\* or not
ThresholdTables ==
    {[ThresholdsPlain EXCEPT !.thresholds =
          [critical |-> [min |-> c], high |-> [min |-> h], medium |-> [min |-> m]]] :
       c \in Minima, h \in Minima, m \in Minima}

\* risk scores, in ten-thousandths: below, at and above the minima
Scores == {-500, 0, 2999, 3000, 5999, 6000, 7999, 8000, 10000}

\* SkillScanner._classify_risk on a score
ClassifyRisk(thresholds, score) ==
    /\ applied.method = "none"
    /\ applied' = [method |-> "_classify_risk",
                   args |-> [thresholds |-> thresholds, score |-> score]]
    /\ returned' = _classify_risk(thresholds, score)
    /\ ScanUnchanged

\* the text a manifest can carry after "source:"; <<>>: no source line
SourceLines ==
    {<<>>, <<S_blank>>, <<S_spaced_unknown>>, <<S_local>>, <<S_quoted_self>>,
     <<S_capital_self>>, <<S_selfish>>, <<S_ftp>>, <<S_capital_http>>, <<S_htt>>,
     <<S_external>>, <<S_google>>, <<S_httpd>>}

\* the text a manifest can carry after "author:" and "trust_level:"
AuthorLines == {<<>>, <<A_al>>, <<A_bo>>, <<A_cy>>}
TagLines == {<<>>, <<S_official>>, <<S_verified>>, <<S_community>>}

\* a line "key: value" of the frontmatter, nothing when the line is absent
ManifestLine(key, line) ==
    IF line = <<>> THEN <<>> ELSE key \o <<":">> \o line[1] \o <<"\n">>

\* SKILL.md of a skill declaring the given source, author and trust level
Manifest(source_line, author_line, tag_line) ==
    M_head \o (IF source_line = <<>> THEN <<>>
               ELSE M_source \o source_line[1] \o <<"\n">>)
           \o ManifestLine(S_author, author_line)
           \o ManifestLine(S_trust_level, tag_line) \o M_tail

\* _verify_source(skill) on the skill loaded from such a manifest
VerifySource(source_line, author_line, tag_line) ==
    /\ applied.method = "none"
    /\ LET loaded == from_path(FolderName, "ok",
                               Manifest(source_line, author_line, tag_line))
       IN  /\ applied' = [method |-> "_verify_source", args |-> [skill |-> loaded]]
           /\ returned' = _verify_source(loaded)
    /\ ScanUnchanged

NextCalls ==
    \/ \E chosen \in SUBSET (1..Len(StderrLines)) : \E in_capitals \in BOOLEAN :
          \E returncode \in ReturnCodes : \E block_index \in {0, 4} :
             AnalyzeExecutionResult(chosen, in_capitals, returncode, block_index)
    \/ \E analysis \in OracleReplies : ConvertToFindings(analysis)
    \/ \E thresholds \in ThresholdTables : \E score \in Scores :
          ClassifyRisk(thresholds, score)
    \/ \E source_line \in SourceLines : \E author_line \in AuthorLines :
          \E tag_line \in TagLines : VerifySource(source_line, author_line, tag_line)

SpecCalls == Init /\ [][NextCalls]_vars

(***************************************************************************)
(* Properties of the scan report.                                          *)
(***************************************************************************)
\* the number of findings named name in the results rs
Occurrences(rs, name) ==
    Cardinality({p \in UNION {{<<i, j>> : j \in 1..Len(rs[i].findings)} :
                              i \in 1..Len(rs)} :
                    rs[p[1]].findings[p[2]].name = name})

\* the finding names of the results rs
FindingNames(rs) ==
    UNION {{rs[i].findings[j].name : j \in 1..Len(rs[i].findings)} :
           i \in 1..Len(rs)}

\* the counts and the high-risk list of a report rep of the results rs:
\* total, passed (low), flagged (medium or high) and blocked (critical),
\* which add up to the total; the high-risk list holds exactly the results
\* scored 0.6 or more, each as often as it was returned, by non-increasing
\* score
CountsAndHighRisk(rep, rs) ==
    LET n(S) == Cardinality({i \in 1..Len(rs) : rs[i].classification \in S})
        hr == rep.high_risk_skills
        times(seq, x) == Cardinality({i \in 1..Len(seq) : seq[i] = x})
    IN  /\ rep.total_skills = Len(rs)
        /\ rep.passed_count = n({"low"})
        /\ rep.flagged_count = n({"medium", "high"})
        /\ rep.blocked_count = n({"critical"})
        /\ rep.passed_count + rep.flagged_count + rep.blocked_count = rep.total_skills
        /\ \A i \in 1..Len(hr) : hr[i].risk_score >= 6000
        /\ \A i \in 1..Len(rs) :
              times(hr, rs[i]) = IF rs[i].risk_score >= 6000 THEN times(rs, rs[i]) ELSE 0
        /\ \A i \in 1..Len(hr) : \E j \in 1..Len(rs) : hr[i] = rs[j]
        /\ \A i \in 1..(Len(hr) - 1) : hr[i].risk_score >= hr[i + 1].risk_score
        /\ rep.summary.high_risk_count = Len(hr)

\* C31 as stated: the report of a scan is a reduction of the result list
\* (counts by classification adding up to the total, the high-risk list),
\* and its issue table has one entry for each finding name of the results,
\* with the number of findings of that name over all results.
C31_IssueTableCountsEveryName ==
    report # <<>> =>
        LET table == report[1].summary.most_common_issues
        IN  /\ CountsAndHighRisk(report[1], results)
            /\ \A i \in 1..Len(table) :
                  table[i].count = Occurrences(results, table[i].name)
            /\ \A name \in FindingNames(results) :
                  \E i \in 1..Len(table) : table[i].name = name

\* C31 as amended: the report of a scan is a reduction of the result list
\* (counts by classification adding up to the total, the high-risk list),
\* and its issue table holds the ten most frequent finding names (all of
\* them when there are at most ten), each once and with the number of
\* findings of that name over all results, by non-increasing count.
C31_IssueTableCountsTenMostFrequentNames ==
    report # <<>> =>
        LET table == report[1].summary.most_common_issues
            names == FindingNames(results)
        IN  /\ CountsAndHighRisk(report[1], results)
            /\ Len(table) = Min({10, Cardinality(names)})
            /\ \A i \in 1..Len(table) :
                  /\ table[i].name \in names
                  /\ table[i].count = Occurrences(results, table[i].name)
                  /\ \A j \in 1..Len(table) : table[j].name = table[i].name => j = i
                  /\ \A j \in (i + 1)..Len(table) : table[i].count >= table[j].count
                  /\ \A name \in names :
                        (\A j \in 1..Len(table) : table[j].name # name) =>
                            Occurrences(results, name) <= table[i].count

\* a report of three results, one of them blocked, two more of different
\* scores in the high-risk list, with more than ten finding names of
\* different frequencies
C31_Witness ==
    /\ report # <<>>
    /\ pc = "idle"
    /\ Len(results) = 3
    /\ report[1].blocked_count = 1
    /\ Len(report[1].high_risk_skills) = 3
    /\ report[1].high_risk_skills[2].risk_score > report[1].high_risk_skills[3].risk_score
    /\ Cardinality(FindingNames(results)) > 10
    /\ Len(report[1].summary.most_common_issues) = 10
    /\ report[1].summary.most_common_issues[1].count = 3
    /\ report[1].summary.most_common_issues[10].count = 1

(***************************************************************************)
(* Properties of the analyzers' methods.                                   *)
(***************************************************************************)
\* C32: for a fragment that completed, the findings are, in the order of
\* the table, one L3 finding for each of the seven known texts that occurs
\* in the lower-cased stderr, with the name and severity fixed for that text
\* (so several for one fragment), followed by one abnormal_exit finding of
\* severity 0.30 exactly when the exit code is neither 0 nor 1; exit codes 0
\* and 1 with none of the texts in stderr give no finding.
C32_OneFindingPerStderrTextAndAbnormalExit ==
    applied.method = "_analyze_execution_result" =>
        LET stderr == Lower(applied.args.stderr)
            known == << <<P_permission_denied, "permission_denied", 40>>,
                        <<P_network_unreachable, "network_attempt", 70>>,
                        <<P_connection_refused, "network_attempt", 60>>,
                        <<P_curl, "external_request", 65>>,
                        <<P_wget, "external_request", 65>>,
                        <<P_socket_error, "socket_usage", 55>>,
                        <<P_subprocess, "subprocess_call", 50>> >>
            occurs == {k \in 1..7 : Contains(stderr, known[k][1])}
            abnormal == applied.args.returncode \notin {0, 1}
            before(k) == Cardinality({j \in occurs : j < k})
        IN  /\ Len(returned) = Cardinality(occurs) + (IF abnormal THEN 1 ELSE 0)
            /\ \A k \in occurs :
                  /\ returned[before(k) + 1].level = "L3"
                  /\ returned[before(k) + 1].name = known[k][2]
                  /\ returned[before(k) + 1].severity = known[k][3]
            /\ abnormal =>
                  /\ returned[Len(returned)].level = "L3"
                  /\ returned[Len(returned)].name = "abnormal_exit"
                  /\ returned[Len(returned)].severity = 30
            /\ (occurs = {} /\ ~abnormal) => returned = <<>>

\* a fragment killed by a signal whose stderr, in capitals, holds both
\* network texts and the curl text: four findings
C32_Witness ==
    /\ applied.method = "_analyze_execution_result"
    /\ applied.args.returncode = 137
    /\ Contains(applied.args.stderr, Upper(P_network_unreachable))
    /\ Contains(applied.args.stderr, Upper(P_connection_refused))
    /\ Contains(applied.args.stderr, Upper(P_curl))
    /\ [i \in 1..Len(returned) |-> <<returned[i].name, returned[i].severity>>]
           = << <<"network_attempt", 70>>, <<"network_attempt", 60>>,
                <<"external_request", 65>>, <<"abnormal_exit", 30>> >>

\* C33: a reply that carries an error becomes exactly one parse_error
\* finding of severity 0.10, whatever else it carries.  Any other reply
\* becomes one L2 finding for each finding of the reply, in order, named by
\* the reported type, with the reported severity (0.5 when none is
\* reported) and the first 200 characters of the evidence, followed by one
\* high_risk_assessment finding whose severity is the reply's risk score
\* exactly when that score is 0.6 or more.
C33_ReplyBecomesFindings ==
    applied.method = "_convert_to_findings" =>
        LET reply == applied.args.analysis
            items == IF "findings" \in DOMAIN reply THEN reply.findings ELSE <<>>
            score == IF "risk_score" \in DOMAIN reply THEN reply.risk_score ELSE 0
            evidence(k) == IF "evidence" \in DOMAIN items[k] THEN items[k].evidence
                           ELSE <<>>
        IN  IF "error" \in DOMAIN reply
            THEN /\ Len(returned) = 1
                 /\ returned[1].level = "L2"
                 /\ returned[1].name = "parse_error"
                 /\ returned[1].severity = 10
            ELSE /\ Len(returned) = Len(items) + (IF score >= 60 THEN 1 ELSE 0)
                 /\ \A k \in 1..Len(items) :
                       /\ returned[k].level = "L2"
                       /\ "type" \in DOMAIN items[k] => returned[k].name = items[k].type
                       /\ returned[k].severity =
                             (IF "severity" \in DOMAIN items[k] THEN items[k].severity
                              ELSE 50)
                       /\ Len(returned[k].code_snippet)
                             = (IF Len(evidence(k)) > 200 THEN 200 ELSE Len(evidence(k)))
                       /\ \A i \in 1..Len(returned[k].code_snippet) :
                             returned[k].code_snippet[i] = evidence(k)[i]
                 /\ score >= 60 =>
                       /\ returned[Len(returned)].level = "L2"
                       /\ returned[Len(returned)].name = "high_risk_assessment"
                       /\ returned[Len(returned)].severity = score

\* a reply of three findings, the first with evidence of 201 characters and
\* the second without a severity, and a risk score just below 0.6: three
\* findings, the first with 200 characters of evidence
C33_Witness ==
    /\ applied.method = "_convert_to_findings"
    /\ "error" \notin DOMAIN applied.args.analysis
    /\ "findings" \in DOMAIN applied.args.analysis
    /\ Len(applied.args.analysis.findings) = 3
    /\ Len(applied.args.analysis.findings[1].evidence) = 201
    /\ applied.args.analysis.risk_score = 59
    /\ Len(returned) = 3
    /\ Len(returned[1].code_snippet) = 200
    /\ returned[2].severity = 50
    /\ returned[3].name = "unknown"

\* C34: a skill that failed to load is returned with risk score 0.0 and
\* classification low, so the report counts it among the passed skills:
\* passed is the invalid results plus the valid ones classified low, flagged
\* and blocked count valid results only, and the high-risk list holds no
\* invalid result.
C34_InvalidSkillsCountAsPassed ==
    report # <<>> =>
        LET invalid == {i \in 1..Len(results) : ~results[i].is_valid}
            valid(S) == {i \in 1..Len(results) :
                            results[i].is_valid /\ results[i].classification \in S}
            hr == report[1].high_risk_skills
        IN  /\ \A i \in invalid :
                  results[i].risk_score = 0 /\ results[i].classification = "low"
            /\ report[1].passed_count = Cardinality(invalid) + Cardinality(valid({"low"}))
            /\ report[1].flagged_count = Cardinality(valid({"medium", "high"}))
            /\ report[1].blocked_count = Cardinality(valid({"critical"}))
            /\ \A j \in 1..Len(hr) : hr[j].is_valid

\* a report of a directory with a missing manifest, a malformed one and a
\* skill classified high: two passed, one flagged
C34_Witness ==
    /\ report # <<>>
    /\ pc = "idle"
    /\ Len(results) = 3
    /\ Cardinality({i \in 1..3 : ~results[i].is_valid}) = 2
    /\ \E i \in 1..3 : results[i].is_valid /\ results[i].classification = "high"
    /\ report[1].passed_count = 2
    /\ report[1].flagged_count = 1
    /\ Len(report[1].high_risk_skills) = 1

C36_ClassificationMonotoneInScore ==
    applied.method = "_classify_risk" =>
        LET rank == ("low" :> 0) @@ ("medium" :> 1) @@ ("high" :> 2) @@ ("critical" :> 3)
        IN  \A lower \in Scores :
                lower <= applied.args.score =>
                    rank[_classify_risk(applied.args.thresholds, lower)] <= rank[returned]

\* a score of 0.6 classified under a table whose minimum for critical (0.3)
\* lies below the one for medium (0.6) and the one for high (0.8)
C36_Witness ==
    /\ applied.method = "_classify_risk"
    /\ applied.args.thresholds.thresholds.critical.min = 30
    /\ applied.args.thresholds.thresholds.medium.min = 60
    /\ applied.args.thresholds.thresholds.high.min = 80
    /\ applied.args.score = 6000
    /\ returned = "critical"

\* C37: the static analyzer reports a manifest without a name field with
\* both missing_name (0.30) and name_mismatch (0.20).  In a full scan of a
\* skill that is not declared offensive, once the scan is past the L2 gate,
\* the oracle has been invoked when the name is missing, and has not been
\* invoked when the only static finding is name_mismatch or the only static
\* finding is missing_source (0.15).
C37_MissingNameOpensL2Gate ==
    LET l1 == SelectSeq(findings, LAMBDA f : f.level = "L1")
        has(name, severity) ==
            Cardinality({i \in 1..Len(l1) :
                            l1[i].name = name /\ l1[i].severity = severity}) = 1
        past_gate == level = "all" /\ pc \notin {"idle", "L1", "L2"}
        offensive == Get(skill.metadata, S_risk, <<>>) = S_offensive
    IN  skill.is_valid =>
            /\ ("L1" \in invoked /\ S_name \notin DOMAIN skill.metadata) =>
                  has("missing_name", 30) /\ has("name_mismatch", 20)
            /\ (past_gate /\ S_name \notin DOMAIN skill.metadata) => "L2" \in invoked
            /\ (past_gate /\ ~offensive /\ Len(l1) = 1 /\ has("name_mismatch", 20)) =>
                  "L2" \notin invoked
            /\ (past_gate /\ ~offensive /\ Len(l1) = 1 /\ has("missing_source", 15)) =>
                  "L2" \notin invoked

\* a full scan of a skill whose manifest lacks only the name returned with
\* the two static findings and after invoking the oracle
C37_Witness ==
    /\ pc = "done"
    /\ level = "all"
    /\ skill.is_valid
    /\ S_name \notin DOMAIN skill.metadata
    /\ Get(skill.metadata, S_risk, <<>>) = S_safe
    /\ Len(SelectSeq(findings, LAMBDA f : f.level = "L1")) = 2
    /\ findings[1].name = "missing_name"
    /\ findings[2].name = "name_mismatch"
    /\ "L2" \in invoked
    /\ l2_attempts > 0

\* C38: the author check of the trust ledger emits exactly one finding, so
\* every result of a scan of a valid skill that ran the trust ledger has a
\* non-empty findings list and a top finding that is not None.
C38_TrustLedgerAlwaysReports ==
    LET AuthorNames == {"trusted_author", "known_author", "low_reputation",
                        "official_skill", "verified_skill", "community_skill"}
        by_author(fs) == SelectSeq(fs, LAMBDA f : f.level = "L4" /\ f.name \in AuthorNames)
    IN  /\ ("L4" \in invoked /\ pc \in {"aggregate", "done"}) =>
               /\ Len(by_author(findings)) = 1
               /\ findings # <<>>
        /\ (pc = "done" /\ result[1].is_valid /\ level \in {"all", "L4", "l4"}) =>
               /\ "L4" \in invoked
               /\ result[1].findings # <<>>
               /\ result[1].top_finding # None
               /\ result[1].top_finding = result[1].findings[1].description

\* a scan at level L4 of a clean skill returned: the only findings are the
\* trust ledger's, the last of them the author check's
C38_Witness ==
    /\ pc = "done"
    /\ level = "L4"
    /\ result[1].is_valid
    /\ invoked = {"L4"}
    /\ Len(result[1].findings) = 2
    /\ result[1].findings[2].name = "community_skill"
    /\ result[1].top_finding = "Skill is self-attributed (original work)"

\* C39: the findings_count and max_severity of an audit record are those
\* of the findings the trust ledger produced in that verify call, not of
\* the running list of the scan; without signature checking the recorded
\* max_severity is at most 0.40 whatever the earlier levels found.
C39_AuditRecordCountsLedgerFindingsOnly ==
    (pc \in {"aggregate", "done"} /\ audit_log # <<>>) =>
        LET entry == audit_log[Len(audit_log)]
            ledger == SelectSeq(findings, LAMBDA f : f.level = "L4")
        IN  /\ Len(audit_log) = 1
            /\ entry.findings_count = Len(ledger)
            /\ \/ entry.max_severity = 0 /\ \A i \in 1..Len(ledger) : ledger[i].severity = 0
               \/ /\ \E i \in 1..Len(ledger) : ledger[i].severity = entry.max_severity
                  /\ \A i \in 1..Len(ledger) : ledger[i].severity <= entry.max_severity
            /\ ~env.require_signature => entry.max_severity <= 40

\* a full scan whose static analysis found a 0.95 pattern was audited, with
\* signature checking off, with fewer findings than the scan has and a
\* max_severity of at most 0.40
C39_Witness ==
    /\ pc = "done"
    /\ ~env.require_signature
    /\ Len(audit_log) = 1
    /\ \E i \in 1..Len(findings) : findings[i].level = "L1" /\ findings[i].severity = 95
    /\ audit_log[1].findings_count < Len(result[1].findings)
    /\ audit_log[1].findings_count = 2
    /\ audit_log[1].max_severity = 40

\* C40: the source check of the trust ledger returns at most one finding;
\* it returns none for a declared source that is non-empty, is neither
\* "unknown" nor "self" and does not start with "http", and one finding of
\* severity 0.10 for a self-attributed skill, so such a source adds less
\* severity than "self".
C40_SourceCheckSilentOnOtherSources ==
    applied.method = "_verify_source" =>
        LET declared == Get(applied.args.skill.metadata, S_source, S_unknown)
            starts_http == Len(declared) >= 4 /\ SubSeq(declared, 1, 4) = <<"h", "t", "t", "p">>
            total == IF returned = <<>> THEN 0 ELSE returned[1].severity
        IN  /\ Len(returned) <= 1
            /\ \A i \in 1..Len(returned) : returned[i].level = "L4"
            /\ (declared # <<>> /\ declared # S_unknown /\ declared # S_self /\ ~starts_http)
                  <=> returned = <<>>
            /\ declared = S_self =>
                  /\ Len(returned) = 1
                  /\ returned[1].name = "self_attributed"
                  /\ total = 10
            /\ returned = <<>> => total < 10

\* the source check ran on a skill whose manifest says "source: local" and
\* returned nothing
C40_Witness ==
    /\ applied.method = "_verify_source"
    /\ applied.args.skill.is_valid
    /\ S_source \in DOMAIN applied.args.skill.metadata
    /\ applied.args.skill.metadata[S_source] = <<"l", "o", "c", "a", "l">>
    /\ returned = <<>>
====
